---- MODULE Spec2Model ----
(***************************************************************************)
(* A model of rpg, the Rustica package manager (src/cli/rpg/src/main.rs):  *)
(* the install / remove / upgrade engine, the checksum and signature       *)
(* verifier and the key store.                                             *)
(*                                                                         *)
(* One CLI invocation is a run of the engine: a Start action loads the     *)
(* persisted database into memory (PackageManager::new) and the steps of   *)
(* the command follow until pc is "done" or "failed".  install_package is  *)
(* recursive; the recursion is the sequence stack of frames, the last      *)
(* frame being the call that is executing.                                 *)
(*                                                                         *)
(* Modelling conventions:                                                  *)
(*  - artifact bytes are names ("A1", "X", ...); Entries gives the archive *)
(*    each decodes to and compute_checksum its SHA-256 hex string (no     *)
(*    collision on the names);                                             *)
(*  - a key file's content is a record [len, mat]; an Ed25519 signature    *)
(*    made with the secret of key material k over bytes b, base64 encoded, *)
(*    is SigB64(k, b), and verifies under k for b only;                    *)
(*  - package names and key identifiers are plain identifiers, archive     *)
(*    paths lie outside the package manager's own directories, and the     *)
(*    cache, the database file, the key areas and the install root are     *)
(*    disjoint parts of the file system; the --output path of export-key   *)
(*    is a path the operator chooses freely;                               *)
(*  - anyhow errors are named by the error kind of their message.          *)
(***************************************************************************)
EXTENDS Naturals, Sequences, FiniteSets, TLC

VARIABLES
    repositories,   \* PackageManager.repositories: Seq of [name, enabled]
    index,          \* cache_dir/<repo>.json: repo name -> NoIndex or (pkg -> Package)
    cache,          \* cache_dir/<pkg>_<version>.tar.gz: <<pkg, version>> -> bytes
    disk_db,        \* package_dir/installed.json: [state, map]
    fs,             \* the paths that exist under the install root
    keys,           \* config_dir/keys: key name -> [secret, public]
    trusted,        \* config_dir/trusted_keys: [exists, files: name -> key file]
    ext,            \* files outside the package manager: file name -> content
    installed,      \* PackageManager.installed of the running invocation
    cmd,            \* the command of the running (or last) invocation
    pc,             \* "idle", "install", "remove", "remove_files", "upgrade", "done",
                    \* "failed"
    err,            \* the error the invocation failed with
    stack,          \* the install_package calls in progress, innermost last
    queue,          \* upgrade_all: packages_to_upgrade still to process
    start,          \* history: the persistent state the invocation started from
    log,            \* history: what the invocation has done so far
    rm,             \* history: the last remove_package of the invocation
    vin,            \* verifier harness: the inputs of verify_package_signature
    vout,           \* verifier harness: its result
    runs            \* the invocations started so far

vars == <<repositories, index, cache, disk_db, fs, keys, trusted, ext, installed,
          cmd, pc, err, stack, queue, start, log, rm, vin, vout, runs>>

---------------------------------------------------------------------------
(* Bounds of the model *)

\* install_package calls nested at one time (the code has no limit)
MaxDepth == 3

\* invocations of the package manager in one behaviour
MaxRuns == 4

---------------------------------------------------------------------------
(* Finite maps *)

Empty == [k \in {} |-> 0]

Put(f, k, v) == [y \in (DOMAIN f) \cup {k} |-> IF y = k THEN v ELSE f[y]]

Del(f, k) == [y \in (DOMAIN f) \ {k} |-> f[y]]

Range(s) == {s[i] : i \in DOMAIN s}

---------------------------------------------------------------------------
(* Artifacts, archives and paths *)

PkgNames == {"A", "B"}

\* the byte strings a download can return
Bytes == {"A1", "A2", "B1", "X"}

\* rutils::compute_checksum: hex(SHA-256(data))
compute_checksum(data) ==
    CASE data = "A1" -> "3f1a"
      [] data = "A2" -> "77c2"
      [] data = "B1" -> "b05e"
      [] data = "X"  -> "e9d4"

\* the tar entries of the gzip stream, in archive order, joined to "/"
Entries(data) ==
    CASE data = "A1" -> <<"/opt/", "/opt/a", "/usr/lib/libx.so">>
      [] data = "A2" -> <<"/opt/", "/opt/a">>
      [] data = "B1" -> <<"/opt/b", "/usr/lib/libx.so", "/usr/bin/b">>
      [] data = "X"  -> <<"/opt/a", "/usr/bin/b">>

Paths == {"/opt/", "/opt/a", "/opt/b", "/usr/lib/libx.so", "/usr/bin/b"}

\* Path::is_dir
IsDir(p) == p = "/opt/"

\* the directory a path is created in; "/" for the directories of the base system
Parent(p) == IF p \in {"/opt/a", "/opt/b"} THEN "/opt/" ELSE "/"

\* what std::fs::remove_dir_all(p) / std::fs::remove_file(p) takes off the disk
Subtree(p) == IF IsDir(p) THEN {p} \cup {q \in Paths : Parent(q) = p} ELSE {p}

---------------------------------------------------------------------------
(* Keys and signatures *)

\* Ed25519 key material: a secret seed together with the public key derived from it
KeyMats == {"k1", "k2"}

KeyNames == {"dev", "ci"}

\* the content of a key file: its length in bytes and the key it holds
KeyFile(k) == [len |-> 32, mat |-> k]

\* 31 bytes: no key
ShortKeyFile == [len |-> 31, mat |-> "none"]

\* 32 bytes that are not the encoding of a curve point
BadPointKeyFile == [len |-> 32, mat |-> "notapoint"]

\* Option<String>::None of signer_key
NoKey == "none"

\* Option<String>::None of signature
NoSig == [kind |-> "none", key |-> "none", data |-> "none"]

\* base64 of the 64-byte signature made with the secret of k over the bytes b
SigB64(k, b) == [kind |-> "sig64", key |-> k, data |-> b]

\* a string that is not base64
NotBase64 == [kind |-> "notbase64", key |-> "none", data |-> "none"]

\* base64 of 12 bytes
ShortSig == [kind |-> "short", key |-> "none", data |-> "none"]

\* BASE64_STANDARD.decode: whether it decodes, and to how many bytes
Base64Decode(s) ==
    [ok |-> s.kind # "notbase64", len |-> IF s.kind = "sig64" THEN 64 ELSE 12]

\* VerifyingKey::from_bytes succeeds
FromBytesOk(kf) == kf.mat \in KeyMats

\* VerifyingKey::verify(data, signature).is_ok()
PkVerify(kf, data, sig) == sig.kind = "sig64" /\ sig.key = kf.mat /\ sig.data = data

NoTrustedDir == [exists |-> FALSE, files |-> Empty]

\* variant: the named key is looked up in the private keys area first
VerifyWithSigner_PrivateArea(data, sig, key_id, tk) ==
    IF key_id \in DOMAIN keys
    THEN IF PkVerify(keys[key_id].public, data, sig) THEN "Ok" ELSE "BadSignature"
    ELSE IF ~(tk.exists /\ key_id \in DOMAIN tk.files) THEN "UnknownSigner"
    ELSE IF PkVerify(tk.files[key_id], data, sig) THEN "Ok"
    ELSE "BadSignature"

\* variant: when the named key does not verify, any trusted key may
VerifyWithSigner_AnyKey(data, sig, key_id, tk) ==
    IF ~(tk.exists /\ key_id \in DOMAIN tk.files) THEN "UnknownSigner"
    ELSE IF tk.files[key_id].len # 32 THEN "MalformedKey"
    ELSE IF \E n \in DOMAIN tk.files : PkVerify(tk.files[n], data, sig) THEN "Ok"
    ELSE "BadSignature"

\* the branch of verify_package_signature taken when signer_key is Some(key_id)
VerifyWithSigner(data, sig, key_id, tk) ==
    IF ~(tk.exists /\ key_id \in DOMAIN tk.files) THEN "UnknownSigner"
    ELSE LET key_data == tk.files[key_id] IN
         IF key_data.len # 32 THEN "MalformedKey"
         ELSE IF ~FromBytesOk(key_data) THEN "InvalidKey"
         ELSE IF PkVerify(key_data, data, sig) THEN "Ok"
         ELSE "BadSignature"

\* variant: only the first file of the directory, in name order, is tried
VerifyAnyTrusted_FirstOnly(data, sig, tk) ==
    IF tk.exists /\ \E n \in DOMAIN tk.files :
                        /\ n = "dev" \/ DOMAIN tk.files = {n}
                        /\ tk.files[n].len = 32
                        /\ FromBytesOk(tk.files[n])
                        /\ PkVerify(tk.files[n], data, sig)
    THEN "Ok"
    ELSE "NoTrustedSignerMatched"

\* the branch taken when signer_key is None: the first trusted key that verifies
VerifyAnyTrusted(data, sig, tk) ==
    IF tk.exists /\ \E n \in DOMAIN tk.files :
                        /\ tk.files[n].len = 32
                        /\ FromBytesOk(tk.files[n])
                        /\ PkVerify(tk.files[n], data, sig)
    THEN "Ok"
    ELSE "NoTrustedSignerMatched"

\* PackageManager::verify_package_signature: "Ok" or the kind of its error
verify_package_signature(data, sig_str, signer_key, tk) ==
    LET sig_bytes == Base64Decode(sig_str) IN
    IF ~sig_bytes.ok THEN "MalformedSignature"
    ELSE IF sig_bytes.len # 64 THEN "MalformedSignature"
    ELSE IF signer_key # NoKey THEN VerifyWithSigner(data, sig_str, signer_key, tk)
    ELSE VerifyAnyTrusted(data, sig_str, tk)

---------------------------------------------------------------------------
(* The catalog *)

NoIndex == [cached |-> FALSE, packages |-> Empty]

\* a cached index file that does not parse as a RepositoryIndex: line 560 skips it
UnparsedIndex == [cached |-> TRUE, packages |-> Empty]

\* the indexes the repository has published; url names the artifact it serves
IndexV1 ==
    [cached |-> TRUE, packages |->
       [p \in PkgNames |->
          IF p = "A"
          THEN [version |-> "1.0", dependencies |-> <<>>, url |-> "A1",
                checksum |-> compute_checksum("A1"),
                signature |-> SigB64("k1", "A1"), signer_key |-> "dev",
                capabilities |-> <<>>]
          ELSE [version |-> "1.0", dependencies |-> <<"A">>, url |-> "B1",
                checksum |-> "", signature |-> NoSig, signer_key |-> NoKey,
                capabilities |-> <<"net_admin">>]]]

IndexV2 ==
    [cached |-> TRUE, packages |->
       [p \in PkgNames |->
          IF p = "A"
          THEN [version |-> "1.1", dependencies |-> <<>>, url |-> "A2",
                checksum |-> "", signature |-> SigB64("k1", "A2"),
                signer_key |-> NoKey, capabilities |-> <<"net_raw">>]
          ELSE [version |-> "1.1", dependencies |-> <<"A">>, url |-> "B1",
                checksum |-> compute_checksum("B1"), signature |-> NoSig,
                signer_key |-> NoKey, capabilities |-> <<"net_admin">>]]]

\* the second index after package B has been withdrawn from the repository, with
\* a signature field for A that is not base64
IndexV3 ==
    [cached |-> TRUE, packages |->
       [p \in {"A"} |-> [IndexV2.packages[p] EXCEPT !.signature = NotBase64]]]

Published == {IndexV1, IndexV2, IndexV3}

\* what a GET of a package url can return
Served(url) == {url, "X"}

\* variant: the enabled flag is not looked at
FindFrom_Disabled(repos, idx, name, i) ==
    IF \E k \in i..Len(repos) : /\ idx[repos[k].name].cached
                                /\ name \in DOMAIN idx[repos[k].name].packages
    THEN LET k == CHOOSE k \in i..Len(repos) :
                     /\ idx[repos[k].name].cached
                     /\ name \in DOMAIN idx[repos[k].name].packages
                     /\ \A j \in i..(k - 1) :
                           ~(/\ idx[repos[j].name].cached
                             /\ name \in DOMAIN idx[repos[j].name].packages)
         IN  [found |-> TRUE, pkg |-> idx[repos[k].name].packages[name],
              repo |-> repos[k].name]
    ELSE [found |-> FALSE, pkg |-> Empty, repo |-> "none"]

RECURSIVE FindFrom(_, _, _, _)
FindFrom(repos, idx, name, i) ==
    IF i > Len(repos) THEN [found |-> FALSE, pkg |-> Empty, repo |-> "none"]
    ELSE IF ~repos[i].enabled THEN FindFrom(repos, idx, name, i + 1)
    ELSE IF ~idx[repos[i].name].cached THEN FindFrom(repos, idx, name, i + 1)
    ELSE IF name \in DOMAIN idx[repos[i].name].packages
         THEN [found |-> TRUE, pkg |-> idx[repos[i].name].packages[name],
               repo |-> repos[i].name]
    ELSE FindFrom(repos, idx, name, i + 1)

\* variant: a name that no index holds resolves to the first entry published
find_package_Fallback(name) ==
    IF FindFrom(repositories, index, name, 1).found
    THEN FindFrom(repositories, index, name, 1)
    ELSE [found |-> TRUE, pkg |-> IndexV1.packages["A"], repo |-> "rustica"]

\* PackageManager::find_package
find_package(name) == FindFrom(repositories, index, name, 1)

---------------------------------------------------------------------------
(* The installed-package database *)

NoDb == [state |-> "absent", map |-> Empty]

CorruptDb == [state |-> "corrupt", map |-> Empty]

\* PackageManager::load_installed: a missing or unparsable file leaves the map empty
load_installed(db) == IF db.state = "ok" THEN db.map ELSE Empty

\* variant: the failed write has replaced the file all the same
SaveOutcomes_WrittenOnFailure(db, map) ==
    {[ok |-> TRUE, db |-> [state |-> "ok", map |-> map]],
     [ok |-> FALSE, db |-> [state |-> "ok", map |-> map]]}

\* variant: the result of std::fs::write is not looked at
SaveOutcomes_ErrorIgnored(db, map) ==
    {[ok |-> TRUE, db |-> [state |-> "ok", map |-> map]],
     [ok |-> TRUE, db |-> db],
     [ok |-> TRUE, db |-> CorruptDb]}

\* variant: the entries found in the file are kept beside those of the map
SaveOutcomes_Merged(db, map) ==
    {[ok |-> TRUE,
      db |-> [state |-> "ok",
              map |-> [n \in (DOMAIN load_installed(db)) \cup (DOMAIN map) |->
                          IF n \in DOMAIN map THEN map[n]
                          ELSE load_installed(db)[n]]]],
     [ok |-> FALSE, db |-> db],
     [ok |-> FALSE, db |-> CorruptDb]}

\* variant: a file that does not parse is not overwritten
SaveOutcomes_UnparsedKept(db, map) ==
    {[ok |-> TRUE, db |-> IF db.state = "corrupt" THEN db
                          ELSE [state |-> "ok", map |-> map]],
     [ok |-> FALSE, db |-> db],
     [ok |-> FALSE, db |-> [state |-> "corrupt", map |-> Empty]]}

\* variant: a failed write puts back the file the invocation found
SaveOutcomes_RolledBack(db, map) ==
    {[ok |-> TRUE, db |-> [state |-> "ok", map |-> map]],
     [ok |-> FALSE, db |-> start.disk_db]}

\* what installed.json can hold after save_installed(map): written, or, when
\* std::fs::write fails, untouched (the open failed) or truncated (the write failed)
SaveOutcomes(db, map) ==
    {[ok |-> TRUE, db |-> [state |-> "ok", map |-> map]],
     [ok |-> FALSE, db |-> db],
     [ok |-> FALSE, db |-> CorruptDb]}

\* variant: the owners are read from installed.json as it is now
is_file_shared_Reloaded(file, exclude_pkg, inst) ==
    \E name \in DOMAIN load_installed(disk_db) :
        /\ name # exclude_pkg
        /\ file \in Range(load_installed(disk_db)[name].files)

\* PackageManager::is_file_shared
is_file_shared(file, exclude_pkg, inst) ==
    \E name \in DOMAIN inst :
        /\ name # exclude_pkg
        /\ file \in Range(inst[name].files)

\* the paths listed by the installed packages other than pkg
OwnedByOthers(pkg, inst) ==
    UNION {Range(inst[n].files) : n \in (DOMAIN inst) \ {pkg}}

\* the loop of remove_package over installed.files: the disk it leaves.  failing
\* are the paths whose deletion returns an error, which .ok() discards
RECURSIVE RemoveFiles(_, _, _, _, _, _)
RemoveFiles(files, i, disk, pkg, inst, failing) ==
    IF i > Len(files) THEN disk
    ELSE IF files[i] \notin disk THEN RemoveFiles(files, i + 1, disk, pkg, inst, failing)
    ELSE IF is_file_shared(files[i], pkg, inst)
         THEN RemoveFiles(files, i + 1, disk, pkg, inst, failing)
    ELSE IF files[i] \in failing THEN RemoveFiles(files, i + 1, disk, pkg, inst, failing)
    ELSE RemoveFiles(files, i + 1, disk \ Subtree(files[i]), pkg, inst, failing)

NoRm == [pkg |-> "none", deleted |-> {}, others |-> {}]

---------------------------------------------------------------------------
(* Archive extraction *)

\* Entry::unpack creates no parent directory: the directory must be there
CanUnpack(disk, p) == Parent(p) = "/" \/ Parent(p) \in disk

\* the disk after the first k entries have been unpacked
RECURSIVE Unpacked(_, _, _)
Unpacked(entries, k, disk) ==
    IF k = 0 THEN disk ELSE Unpacked(entries, k - 1, disk) \cup {entries[k]}

\* whether the first k entries can be unpacked one after the other
RECURSIVE Unpackable(_, _, _)
Unpackable(entries, k, disk) ==
    IF k = 0 THEN TRUE
    ELSE /\ Unpackable(entries, k - 1, disk)
         /\ CanUnpack(Unpacked(entries, k - 1, disk), entries[k])

---------------------------------------------------------------------------
(* One invocation *)

Top == stack[Len(stack)]

SetTop(f) == [stack EXCEPT ![Len(stack)] = f]

NoEntry == [version |-> "none", dependencies |-> <<>>, url |-> "none",
            checksum |-> "", signature |-> NoSig, signer_key |-> NoKey,
            capabilities |-> <<>>]

\* a call install_package(package, yes, download_only) that has just been entered
Frame(package, yes, download_only) ==
    [pkg |-> package, pc |-> "begin", yes |-> yes, download_only |-> download_only,
     entry |-> NoEntry, next_dep |-> 1, data |-> "none", files |-> <<>>]

NoErr == [kind |-> "none", reason |-> "none", pkg |-> "none", calls |-> {}]

\* no --output path
NoOutput == [dir |-> "none", name |-> "none"]

\* pkg is the first (in most commands the only) package named, packages all of
\* them in command-line order
Cmd(op, package, yes, download_only) ==
    [op |-> op, pkg |-> package, yes |-> yes, download_only |-> download_only,
     output |-> NoOutput, packages |-> <<package>>]

Event(ev, package) == [ev |-> ev, pkg |-> package]

Snapshot == [installed |-> load_installed(disk_db), disk_db |-> disk_db,
             fs |-> fs, cache |-> cache, trusted |-> trusted, index |-> index]

Idle == pc \in {"idle", "done", "failed"}

keystore == <<keys, trusted, ext>>

harness == <<vin, vout>>

\* PackageManager::new followed by the dispatch of the command in run(), once the
\* invocation before it has exited
Begin(c) ==
    /\ Idle
    /\ runs < MaxRuns
    /\ runs' = runs + 1
    /\ cmd' = c
    /\ start' = Snapshot

\* variant: the error of a dependency is dropped by the call that installs it
Fail_DependencyIgnored(kind, reason) ==
    IF Len(stack) > 1
    THEN /\ stack' = SubSeq(stack, 1, Len(stack) - 1)
         /\ UNCHANGED <<pc, err, queue>>
    ELSE /\ pc' = "failed"
         /\ err' = [kind |-> kind, reason |-> reason, pkg |-> Top.pkg,
                    calls |-> {stack[i].pkg : i \in DOMAIN stack}]
         /\ stack' = <<>>
         /\ queue' = <<>>

\* the innermost install_package call returns Err: every call in progress
\* returns it in turn (each is awaited with ?) and the invocation exits
Fail(kind, reason) ==
    /\ pc' = "failed"
    /\ err' = [kind |-> kind, reason |-> reason, pkg |-> Top.pkg,
               calls |-> {stack[i].pkg : i \in DOMAIN stack}]
    /\ stack' = <<>>
    /\ queue' = <<>>

\* the innermost install_package call returns Ok(()): to the call that made it,
\* to the loop of upgrade_all, or to the loop of run() over the packages named
\* (lines 981-985), which calls install_package for the next one
Return ==
    IF Len(stack) = 1 /\ cmd.op = "install" /\ queue # <<>>
    THEN /\ stack' = <<Frame(Head(queue), cmd.yes, cmd.download_only)>>
         /\ queue' = Tail(queue)
         /\ UNCHANGED <<pc, err>>
    ELSE /\ stack' = SubSeq(stack, 1, Len(stack) - 1)
         /\ pc' = IF Len(stack) > 1 THEN "install"
                  ELSE IF cmd.op = "upgrade" THEN "upgrade" ELSE "done"
         /\ UNCHANGED <<err, queue>>

---------------------------------------------------------------------------
(* install_package *)

\* the lines the operator can type at a [Y/n] prompt
Answers == {"y", "N", "no"}

\* input.trim().to_lowercase(), lines 452, 468 and 931
TrimLower(input) == IF input = "N" THEN "n" ELSE input

\* variant: the line is compared as typed
Declines_Exact(input) == input = "n"

\* the test of lines 452, 468 and 931
Declines(input) == TrimLower(input) = "n"

\* pkg install <package> [--yes] [--download-only]
StartInstall ==
    \E p \in PkgNames, yes \in BOOLEAN, download_only \in BOOLEAN :
        /\ Begin(Cmd("install", p, yes, download_only))
        /\ installed' = load_installed(disk_db)
        /\ stack' = <<Frame(p, yes, download_only)>>
        /\ pc' = "install"
        /\ log' = <<>>
        /\ queue' = <<>>
        /\ err' = NoErr
        /\ rm' = NoRm
        /\ UNCHANGED <<repositories, index, cache, disk_db, fs, keystore, harness>>

\* variant: the database is not consulted
AlreadyInstalled_Never(package, inst) == FALSE

\* the test of lines 429-433
AlreadyInstalled(package, inst) == package \in DOMAIN inst

\* lines 426-471: the already-installed check, find_package, the two prompts
InstallBegin ==
    /\ pc = "install"
    /\ Top.pc = "begin"
    /\ UNCHANGED <<runs, repositories, index, cache, disk_db, fs, keystore, harness,
                   installed, cmd, start, rm>>
    /\ LET found == find_package(Top.pkg)
           pkg == found.pkg
           ask_caps == pkg.capabilities # <<>> /\ ~Top.yes
           ask_deps == pkg.dependencies # <<>> /\ ~Top.yes
           resolved == Append(log, Event("resolve", Top.pkg))
       IN  \/ /\ AlreadyInstalled(Top.pkg, installed)
              /\ log' = log
              /\ Return
           \/ /\ ~AlreadyInstalled(Top.pkg, installed)
              /\ ~found.found
              /\ log' = resolved
              /\ Fail("PackageNotFound", "none")
           \/ /\ ~AlreadyInstalled(Top.pkg, installed)
              /\ found.found
              /\ \E input_caps \in Answers, input_deps \in Answers :
                   LET asked_caps ==
                          IF ask_caps
                          THEN resolved \o <<Event("prompt_caps", Top.pkg),
                                             Event(input_caps, Top.pkg)>>
                          ELSE resolved
                       asked_deps ==
                          IF ask_deps
                          THEN asked_caps \o <<Event("prompt_deps", Top.pkg),
                                               Event(input_deps, Top.pkg)>>
                          ELSE asked_caps
                   IN  IF ask_caps /\ Declines(input_caps)
                       THEN log' = asked_caps /\ Return
                       ELSE IF ask_deps /\ Declines(input_deps)
                       THEN log' = asked_deps /\ Return
                       ELSE /\ log' = asked_deps
                            /\ stack' = SetTop([Top EXCEPT !.pc = "deps", !.entry = pkg])
                            /\ UNCHANGED <<pc, err, queue>>

\* variant: no dependency is looked at
NextUnmet_None(deps, i, inst) == 0

\* variant: a dependency whose install is in progress is passed over
NextUnmet_SkipActive(deps, i, inst) ==
    LET C == {j \in i..Len(deps) :
                 /\ deps[j] \notin DOMAIN inst
                 /\ deps[j] \notin {stack[k].pkg : k \in DOMAIN stack}}
    IN  IF C = {} THEN 0 ELSE CHOOSE j \in C : \A m \in C : j <= m

\* the first dependency at or after position i that is not installed, or 0
RECURSIVE NextUnmet(_, _, _)
NextUnmet(deps, i, inst) ==
    IF i > Len(deps) THEN 0
    ELSE IF deps[i] \notin DOMAIN inst THEN i
    ELSE NextUnmet(deps, i + 1, inst)

\* variant: the dependency inherits the caller's flag
DepCall_Inherit(dep, yes) == Frame(dep, yes, FALSE)

\* variant: the nested call is made for the calling package itself
DepCall_Self(dep, yes) == Frame(Top.pkg, TRUE, FALSE)

\* variant: the dependency inherits the caller's download_only
DepCall_DownloadOnly(dep, yes) == Frame(dep, TRUE, Top.download_only)

\* line 477: install_package(dep, true, false)
DepCall(dep, yes) == Frame(dep, TRUE, FALSE)

\* lines 473-480: the loop over pkg.dependencies, up to its next recursive call
InstallDeps ==
    /\ pc = "install"
    /\ Top.pc = "deps"
    /\ UNCHANGED <<runs, repositories, index, cache, disk_db, fs, keystore, harness,
                   installed, cmd, start, rm, pc, err, queue, log>>
    /\ LET j == NextUnmet(Top.entry.dependencies, Top.next_dep, installed)
       IN  IF j = 0
           THEN stack' = SetTop([Top EXCEPT !.pc = "download"])
           ELSE /\ Len(stack) < MaxDepth
                /\ stack' = Append(SetTop([Top EXCEPT !.next_dep = j + 1]),
                                   DepCall(Top.entry.dependencies[j], Top.yes))

\* cache_dir/<package>_<version>.tar.gz
PackageFile(f) == <<f.pkg, f.entry.version>>

\* lines 482-486: download_with_progress
InstallDownload ==
    /\ pc = "install"
    /\ Top.pc = "download"
    /\ log' = Append(log, Event("download", Top.pkg))
    /\ UNCHANGED <<runs, repositories, index, disk_db, fs, keystore, harness,
                   installed, cmd, start, rm>>
    /\ \/ \E data \in Served(Top.entry.url) :
              /\ cache' = Put(cache, PackageFile(Top), data)
              /\ stack' = SetTop([Top EXCEPT !.pc = "verify"])
              /\ UNCHANGED <<pc, err, queue>>
       \/ /\ cache' = cache
          /\ Fail("NetworkError", "none")

\* the test of line 493
ChecksumMismatch(actual_checksum, expected) ==
    actual_checksum # expected /\ expected # ""

\* variant: the bytes are not examined
VerifyArtifact_Unchecked(pkg, file_data, tk) == [kind |-> "Ok", reason |-> "none"]

\* variant: a package without a signature is refused
VerifyArtifact_SignatureRequired(pkg, file_data, tk) ==
    IF ChecksumMismatch(compute_checksum(file_data), pkg.checksum)
    THEN [kind |-> "ChecksumMismatch", reason |-> "none"]
    ELSE IF verify_package_signature(file_data, pkg.signature, pkg.signer_key, tk) # "Ok"
    THEN [kind |-> "SignatureInvalid",
          reason |-> verify_package_signature(file_data, pkg.signature, pkg.signer_key, tk)]
    ELSE [kind |-> "Ok", reason |-> "none"]

\* the result of lines 488-508 on the bytes read back: "Ok", or the error
VerifyArtifact(pkg, file_data, tk) ==
    IF ChecksumMismatch(compute_checksum(file_data), pkg.checksum)
    THEN [kind |-> "ChecksumMismatch", reason |-> "none"]
    ELSE IF pkg.signature # NoSig
              /\ verify_package_signature(file_data, pkg.signature, pkg.signer_key, tk) # "Ok"
    THEN [kind |-> "SignatureInvalid",
          reason |-> verify_package_signature(file_data, pkg.signature, pkg.signer_key, tk)]
    ELSE [kind |-> "Ok", reason |-> "none"]

\* variant: the flag is not looked at
DownloadOnly_Never(f) == FALSE

\* the test of line 510
DownloadOnly(f) == f.download_only

\* lines 488-513: read the file back, checksum, signature, download-only
InstallVerify ==
    /\ pc = "install"
    /\ Top.pc = "verify"
    /\ UNCHANGED <<runs, repositories, index, disk_db, fs, keystore, harness,
                   installed, cmd, start, rm>>
    /\ LET file_data == cache[PackageFile(Top)]
           res == VerifyArtifact(Top.entry, file_data, trusted)
       IN  \/ /\ res.kind # "Ok"               \* remove_file, then the error
              /\ cache' = Del(cache, PackageFile(Top))
              /\ log' = log
              /\ Fail(res.kind, res.reason)
           \/ /\ res.kind # "Ok"               \* remove_file itself fails
              /\ cache' = cache
              /\ log' = log
              /\ Fail("IoError", "remove_file")
           \/ /\ res.kind = "Ok"
              /\ DownloadOnly(Top)
              /\ cache' = cache
              /\ log' = Append(log, Event("verified", Top.pkg))
              /\ Return
           \/ /\ res.kind = "Ok"
              /\ ~DownloadOnly(Top)
              /\ cache' = cache
              /\ log' = Append(log, Event("verified", Top.pkg))
              /\ stack' = SetTop([Top EXCEPT !.pc = "extract", !.data = file_data])
              /\ UNCHANGED <<pc, err, queue>>

\* variant: an entry that fails to unpack is passed over
ExtractedAll_Lenient(entries, k) == TRUE

\* extract_package returns Ok when every entry.unpack has (line 586)
ExtractedAll(entries, k) == k = Len(entries)

\* lines 515-518 and extract_package: the entries are unpacked in archive order;
\* the first k succeed and, when k is not all of them, the next one fails
InstallExtract ==
    /\ pc = "install"
    /\ Top.pc = "extract"
    /\ UNCHANGED <<runs, repositories, index, cache, disk_db, keystore, harness,
                   installed, cmd, start, rm>>
    /\ LET entries == Entries(cache[PackageFile(Top)])
       IN  \E k \in 0..Len(entries) :
              /\ Unpackable(entries, k, fs)
              /\ fs' = Unpacked(entries, k, fs)
              /\ IF ExtractedAll(entries, k)
                 THEN /\ log' = Append(log, Event("extract", Top.pkg))
                      /\ stack' = SetTop([Top EXCEPT !.pc = "record", !.files = entries])
                      /\ UNCHANGED <<pc, err, queue>>
                 ELSE /\ log' = Append(log, Event("extract", Top.pkg))
                      /\ Fail("ArchiveExtractionError", "none")

\* variant: the files of the entry the package had before are kept in front
InstalledPackage_Merged(f) ==
    [version |-> f.entry.version,
     files |-> IF f.pkg \in DOMAIN start.installed
               THEN start.installed[f.pkg].files \o f.files ELSE f.files]

\* the InstalledPackage of lines 535-540 (install_date is the clock's, left out)
InstalledPackage(f) == [version |-> f.entry.version, files |-> f.files]

\* lines 520-545: insert into self.installed, save_installed
InstallRecord ==
    /\ pc = "install"
    /\ Top.pc = "record"
    /\ UNCHANGED <<runs, repositories, index, cache, fs, keystore, harness, cmd, start, rm>>
    /\ installed' = Put(installed, Top.pkg, InstalledPackage(Top))
    /\ \E out \in SaveOutcomes(disk_db, installed') :
          /\ disk_db' = out.db
          /\ IF out.ok
             THEN log' = Append(log, Event("recorded", Top.pkg)) /\ Return
             ELSE log' = log /\ Fail("DatabaseIoError", "none")

---------------------------------------------------------------------------
(* remove_package, upgrade_all, update_repositories *)

\* variant: the entry of the package is kept
remove_package_KeepEntry(package, inst, disk, failing) ==
    [fs |-> RemoveFiles(inst[package].files, 1, disk, package, inst, failing),
     installed |-> inst]

\* variant: a package that an installed package lists as a dependency is kept
remove_package_Guarded(package, inst, disk, failing) ==
    IF \E n \in (DOMAIN inst) \ {package} :
          /\ find_package(n).found
          /\ package \in Range(find_package(n).pkg.dependencies)
    THEN [fs |-> disk, installed |-> inst]
    ELSE [fs |-> RemoveFiles(inst[package].files, 1, disk, package, inst, failing),
          installed |-> Del(inst, package)]

\* lines 600-621 for an installed package: the disk and the map they leave
remove_package(package, inst, disk, failing) ==
    [fs |-> RemoveFiles(inst[package].files, 1, disk, package, inst, failing),
     installed |-> Del(inst, package)]

RemovalRecord(package, inst, disk, after) ==
    [pkg |-> package, deleted |-> disk \ after, others |-> OwnedByOthers(package, inst)]

\* remove_package failed in save_installed
SaveFailed(package) ==
    [kind |-> "DatabaseIoError", reason |-> "none", pkg |-> package, calls |-> {}]

\* pkg remove <package>
Remove ==
    \E p \in PkgNames :
        /\ Begin(Cmd("remove", p, FALSE, FALSE))
        /\ UNCHANGED <<repositories, index, cache, keystore, harness, stack, queue>>
        /\ LET inst == load_installed(disk_db)
           IN  IF p \notin DOMAIN inst
               THEN /\ installed' = inst          \* lines 595-598: Ok(())
                    /\ pc' = "done"
                    /\ err' = NoErr
                    /\ rm' = NoRm
                    /\ log' = <<>>
                    /\ UNCHANGED <<disk_db, fs>>
               ELSE \E failing \in SUBSET Range(inst[p].files) :
                      LET r == remove_package(p, inst, fs, failing)
                      IN  /\ fs' = r.fs
                          /\ installed' = r.installed
                          /\ rm' = RemovalRecord(p, inst, fs, r.fs)
                          /\ log' = <<Event("removed", p)>>
                          /\ \E out \in SaveOutcomes(disk_db, r.installed) :
                                /\ disk_db' = out.db
                                /\ pc' = IF out.ok THEN "done" ELSE "failed"
                                /\ err' = IF out.ok THEN NoErr ELSE SaveFailed(p)

\* the orders in which a HashMap can yield the names of S
Orders(S) == {q \in [1..Cardinality(S) -> S] : Range(q) = S}

\* variant: every installed package that resolves is queued
ToUpgrade_All(inst) == {n \in DOMAIN inst : find_package(n).found}

\* lines 899-914: the installed packages whose catalog version differs
ToUpgrade(inst) ==
    {n \in DOMAIN inst : /\ find_package(n).found
                         /\ find_package(n).pkg.version # inst[n].version}

\* pkg upgrade [--yes]: lines 896-935
StartUpgrade ==
    \E yes \in BOOLEAN :
        /\ Begin(Cmd("upgrade", "none", yes, FALSE))
        /\ UNCHANGED <<repositories, index, cache, disk_db, fs, keystore, harness, stack>>
        /\ installed' = load_installed(disk_db)
        /\ err' = NoErr
        /\ rm' = NoRm
        /\ LET found == ToUpgrade(load_installed(disk_db))
           IN  IF found = {}
               THEN pc' = "done" /\ queue' = <<>> /\ log' = <<>>
               ELSE IF yes
               THEN /\ pc' = "upgrade"
                    /\ log' = <<>>
                    /\ \E packages_to_upgrade \in Orders(found) :
                          queue' = packages_to_upgrade
               ELSE \E input \in Answers :
                      /\ log' = <<Event("prompt_upgrade", "none"), Event(input, "none")>>
                      /\ IF Declines(input)
                          THEN pc' = "done" /\ queue' = <<>>
                          ELSE /\ pc' = "upgrade"
                               /\ \E packages_to_upgrade \in Orders(found) :
                                     queue' = packages_to_upgrade

\* lines 937-952: remove_package of the next queued package, then the call of
\* install_package for it; Ok(()) once the queue is empty
UpgradeNext ==
    /\ pc = "upgrade"
    /\ UNCHANGED <<runs, repositories, index, cache, keystore, harness, cmd, start>>
    /\ IF queue = <<>>
       THEN /\ pc' = "done"
            /\ UNCHANGED <<disk_db, fs, installed, err, stack, queue, log, rm>>
       ELSE LET p == Head(queue)
            IN  IF p \notin DOMAIN installed
                THEN /\ stack' = <<Frame(p, TRUE, FALSE)>>
                     /\ pc' = "install"
                     /\ queue' = Tail(queue)
                     /\ UNCHANGED <<disk_db, fs, installed, err, log, rm>>
                ELSE \E failing \in SUBSET Range(installed[p].files) :
                       LET r == remove_package(p, installed, fs, failing)
                       IN  /\ fs' = r.fs
                           /\ installed' = r.installed
                           /\ rm' = RemovalRecord(p, installed, fs, r.fs)
                           /\ log' = Append(log, Event("removed", p))
                           /\ \E out \in SaveOutcomes(disk_db, r.installed) :
                                 /\ disk_db' = out.db
                                 /\ IF out.ok
                                    THEN /\ stack' = <<Frame(p, TRUE, FALSE)>>
                                         /\ pc' = "install"
                                         /\ queue' = Tail(queue)
                                         /\ err' = NoErr
                                    ELSE /\ stack' = <<>>
                                         /\ pc' = "failed"
                                         /\ queue' = <<>>
                                         /\ err' = SaveFailed(p)

\* what the body of the loop of update_repositories can come to for one
\* repository: the index fetched is written to the cache; the download fails or
\* the bytes do not parse (a warning, lines 325-331); or std::fs::write of line
\* 320 fails, leaving the cache file untouched or truncated
SyncOutcomes ==
    {[kind |-> "cached", idx |-> i] : i \in Published} \cup
    {[kind |-> k, idx |-> NoIndex] : k \in {"download_failed", "parse_failed",
                                            "write_failed"}} \cup
    {[kind |-> "write_failed", idx |-> UnparsedIndex]}

RECURSIVE Sync(_, _, _, _, _)

\* variant: the loop ends at the first download or parse failure
Sync_StopAtFailure(repos, i, idx, lg, out) ==
    IF i > Len(repos) THEN [index |-> idx, log |-> lg, ok |-> TRUE]
    ELSE IF ~repos[i].enabled THEN Sync(repos, i + 1, idx, lg, out)
    ELSE IF out[i].kind = "cached"
         THEN Sync(repos, i + 1, [idx EXCEPT ![repos[i].name] = out[i].idx],
                   Append(lg, Event("cached", repos[i].name)), out)
    ELSE [index |-> idx, log |-> Append(lg, Event(out[i].kind, repos[i].name)),
          ok |-> out[i].kind # "write_failed"]

\* the loop of lines 305-333 from position i on, out[i] being what happens to
\* repository i: the caches and the log it leaves, and whether it returns Ok
Sync(repos, i, idx, lg, out) ==
    IF i > Len(repos) THEN [index |-> idx, log |-> lg, ok |-> TRUE]
    ELSE IF ~repos[i].enabled THEN Sync(repos, i + 1, idx, lg, out)
    ELSE IF out[i].kind = "cached"
         THEN Sync(repos, i + 1, [idx EXCEPT ![repos[i].name] = out[i].idx],
                   Append(lg, Event("cached", repos[i].name)), out)
    ELSE IF out[i].kind = "write_failed"
         THEN [index |-> IF out[i].idx.cached
                         THEN [idx EXCEPT ![repos[i].name] = out[i].idx] ELSE idx,
               log |-> Append(lg, Event("write_failed", repos[i].name)),
               ok |-> FALSE]
    ELSE Sync(repos, i + 1, idx, Append(lg, Event(out[i].kind, repos[i].name)), out)

\* pkg update: update_repositories, lines 302-337
Update ==
    /\ Begin(Cmd("update", "none", FALSE, FALSE))
    /\ UNCHANGED <<repositories, cache, disk_db, fs, keystore, harness, stack, queue>>
    /\ installed' = load_installed(disk_db)
    /\ rm' = NoRm
    /\ \E out \in [DOMAIN repositories -> SyncOutcomes] :
          LET r == Sync(repositories, 1, index, <<>>, out)
          IN  /\ index' = r.index
              /\ log' = r.log
              /\ pc' = IF r.ok THEN "done" ELSE "failed"
              /\ err' = IF r.ok THEN NoErr
                        ELSE [kind |-> "IoError", reason |-> "write",
                              pkg |-> "none", calls |-> {}]

---------------------------------------------------------------------------
(* The key store *)

\* a file that does not exist
NoFile == [len |-> 0, mat |-> "none"]

\* lines 763-777: the keys area after the two files of the keypair of seed have
\* been written, or after the write of <name>.secret has failed, or after
\* <name>.secret was written and set_permissions or the write of <name>.pub has
\* failed
WriteKeypair(ks, name, seed) ==
    {[ok |-> TRUE,
      keys |-> Put(ks, name, [secret |-> KeyFile(seed), public |-> KeyFile(seed)])],
     [ok |-> FALSE, keys |-> ks],
     [ok |-> FALSE,
      keys |-> Put(ks, name, [secret |-> KeyFile(seed),
                              public |-> IF name \in DOMAIN ks THEN ks[name].public
                                         ELSE NoFile])]}

\* pkg keygen <name>: generate_keypair.  The 64 random bytes are a seed and a
\* public half; SigningKey::from_keypair_bytes accepts them only when the public
\* half is the key derived from the seed
Keygen ==
    \E name \in KeyNames, seed \in KeyMats, public \in KeyMats \cup {"notapoint"} :
        /\ Begin(Cmd("keygen", name, FALSE, FALSE))
        /\ UNCHANGED <<repositories, index, cache, disk_db, fs, trusted, ext,
                       harness, stack, queue>>
        /\ installed' = load_installed(disk_db)
        /\ rm' = NoRm
        /\ log' = <<>>
        /\ IF public = seed
           THEN \E out \in WriteKeypair(keys, name, seed) :
                   /\ keys' = out.keys
                   /\ pc' = IF out.ok THEN "done" ELSE "failed"
                   /\ err' = IF out.ok THEN NoErr
                             ELSE [kind |-> "IoError", reason |-> "write",
                                   pkg |-> "none", calls |-> {}]
           ELSE /\ keys' = keys
                /\ pc' = "failed"
                /\ err' = [kind |-> "KeypairError", reason |-> "none",
                           pkg |-> "none", calls |-> {}]

\* the paths --output can name: a file <name>.pub of the working directory (the
\* default is <key name>.pub there) or of the trusted-keys directory
OutputPaths == [dir : {"cwd", "trusted_keys"}, name : KeyNames]

\* std::fs::write(&output_path, &key_data), line 794, on the working directory
WriteExt(files, output, key_data) ==
    IF output.dir = "cwd" THEN Put(files, output.name, key_data) ELSE files

\* the same write on the trusted-keys directory, which it does not create
WriteTrusted(tk, output, key_data) ==
    IF output.dir = "trusted_keys" /\ tk.exists
    THEN [exists |-> TRUE, files |-> Put(tk.files, output.name, key_data)]
    ELSE tk

\* pkg export-key <name> [--output <path>]: export_public_key
ExportKey ==
    \E name \in KeyNames, output \in OutputPaths :
        /\ Begin([Cmd("export-key", name, FALSE, FALSE) EXCEPT !.output = output])
        /\ UNCHANGED <<repositories, index, cache, disk_db, fs, keys,
                       harness, stack, queue>>
        /\ installed' = load_installed(disk_db)
        /\ rm' = NoRm
        /\ log' = <<>>
        /\ IF name \notin DOMAIN keys \/ keys[name].public = NoFile
           THEN /\ UNCHANGED <<ext, trusted>>
                /\ pc' = "failed"
                /\ err' = [kind |-> "KeyNotFound", reason |-> "none",
                           pkg |-> "none", calls |-> {}]
           ELSE IF output.dir = "trusted_keys" /\ ~trusted.exists
           THEN /\ UNCHANGED <<ext, trusted>>
                /\ pc' = "failed"
                /\ err' = [kind |-> "IoError", reason |-> "write",
                           pkg |-> "none", calls |-> {}]
           ELSE /\ ext' = WriteExt(ext, output, keys[name].public)
                /\ trusted' = WriteTrusted(trusted, output, keys[name].public)
                /\ pc' = "done"
                /\ err' = NoErr

\* the check of lines 802-809 on the bytes of the key file
ImportCheck(key_data) ==
    IF key_data.len # 32 THEN "MalformedKey"
    ELSE IF ~FromBytesOk(key_data) THEN "InvalidKey"
    ELSE "Ok"

\* variant: the key is trusted whether --trust is given or not
ImportInto_Always(tk, name, key_data, trust) ==
    [exists |-> TRUE, files |-> Put(tk.files, name, key_data)]

\* lines 816-826: the trusted-keys area after the import of a valid key
ImportInto(tk, name, key_data, trust) ==
    IF trust THEN [exists |-> TRUE, files |-> Put(tk.files, name, key_data)]
    ELSE tk

\* pkg import-key <file> [--trust]: import_public_key; the key is named by the
\* stem of the file name
ImportKey ==
    \E key_file \in DOMAIN ext, trust \in BOOLEAN :
        /\ Begin(Cmd("import-key", key_file, trust, FALSE))
        /\ UNCHANGED <<repositories, index, cache, disk_db, fs, keys, ext,
                       harness, stack, queue>>
        /\ installed' = load_installed(disk_db)
        /\ rm' = NoRm
        /\ log' = <<>>
        /\ IF ImportCheck(ext[key_file]) = "Ok"
           THEN /\ trusted' = ImportInto(trusted, key_file, ext[key_file], trust)
                /\ pc' = "done"
                /\ err' = NoErr
           ELSE /\ trusted' = trusted
                /\ pc' = "failed"
                /\ err' = [kind |-> ImportCheck(ext[key_file]), reason |-> "none",
                           pkg |-> "none", calls |-> {}]

---------------------------------------------------------------------------
(* The verifier on its own *)

KeyFiles == {KeyFile("k1"), KeyFile("k2"), ShortKeyFile, BadPointKeyFile}

\* the trusted-keys directories verify_package_signature can find
TrustedStores ==
    {NoTrustedDir} \cup
    {[exists |-> TRUE, files |-> f] :
        f \in UNION {[S -> KeyFiles] : S \in SUBSET KeyNames}}

VerifyInputs ==
    [data : {"A1", "X"},
     sig : {SigB64("k1", "A1"), SigB64("k2", "A1"), SigB64("k1", "X"),
            NotBase64, ShortSig},
     signer_key : {NoKey} \cup KeyNames,
     trusted : TrustedStores]

\* a call of verify_package_signature on the inputs drawn
VerifyCall ==
    /\ vout = "none"
    /\ vout' = verify_package_signature(vin.data, vin.sig, vin.signer_key, vin.trusted)
    /\ UNCHANGED <<runs, repositories, index, cache, disk_db, fs, keys, trusted, ext,
                   installed, cmd, pc, err, stack, queue, start, log, rm, vin>>

---------------------------------------------------------------------------
(* Specifications *)

TrustsDev == [exists |-> TRUE, files |-> [n \in {"dev"} |-> KeyFile("k1")]]

NoInput == [data |-> "none", sig |-> NoSig, signer_key |-> NoKey,
            trusted |-> NoTrustedDir]

\* a system on which the package manager has not run yet
Fresh ==
    /\ repositories = <<[name |-> "rustica", enabled |-> TRUE]>>
    /\ index = [r \in {"rustica"} |-> NoIndex]
    /\ cache = Empty
    /\ disk_db = NoDb
    /\ fs = {}
    /\ keys = Empty
    /\ ext = Empty
    /\ installed = Empty
    /\ cmd = Cmd("none", "none", FALSE, FALSE)
    /\ pc = "idle"
    /\ err = NoErr
    /\ stack = <<>>
    /\ queue = <<>>
    /\ log = <<>>
    /\ rm = NoRm
    /\ runs = 0
    /\ start = [installed |-> Empty, disk_db |-> NoDb, fs |-> {}, cache |-> Empty,
                trusted |-> trusted, index |-> index]

\* the engine: update, install, remove and upgrade, one invocation after the
\* other, with the operator's key trusted or not
Init ==
    /\ trusted \in {NoTrustedDir, TrustsDev}
    /\ vin = NoInput
    /\ vout = "none"
    /\ Fresh

InstallStep ==
    \/ InstallBegin
    \/ InstallDeps
    \/ InstallDownload
    \/ InstallVerify
    \/ InstallExtract
    \/ InstallRecord

Next ==
    \/ Update
    \/ StartInstall
    \/ InstallStep
    \/ Remove
    \/ StartUpgrade
    \/ UpgradeNext

Spec == Init /\ [][Next]_vars

\* the verifier applied to every input of VerifyInputs
InitVerify ==
    /\ trusted = NoTrustedDir
    /\ vin \in VerifyInputs
    /\ vout = "none"
    /\ Fresh

NextVerify == VerifyCall

SpecVerify == InitVerify /\ [][NextVerify]_vars

\* the key store and Install: the catalog is synced, the publisher's public key
\* and a truncated key file lie in the working directory, nothing is trusted yet
InitKeys ==
    /\ trusted = NoTrustedDir
    /\ vin = NoInput
    /\ vout = "none"
    /\ repositories = <<[name |-> "rustica", enabled |-> TRUE]>>
    /\ index \in {[r \in {"rustica"} |-> i] : i \in Published}
    /\ cache = Empty
    /\ disk_db = NoDb
    /\ fs = {}
    /\ keys = Empty
    /\ ext = [n \in KeyNames |-> IF n = "dev" THEN KeyFile("k1") ELSE ShortKeyFile]
    /\ installed = Empty
    /\ cmd = Cmd("none", "none", FALSE, FALSE)
    /\ pc = "idle"
    /\ err = NoErr
    /\ stack = <<>>
    /\ queue = <<>>
    /\ log = <<>>
    /\ rm = NoRm
    /\ runs = 0
    /\ start = [installed |-> Empty, disk_db |-> NoDb, fs |-> {}, cache |-> Empty,
                trusted |-> NoTrustedDir, index |-> index]

NextKeys ==
    \/ Keygen
    \/ ExportKey
    \/ ImportKey
    \/ StartInstall
    \/ InstallStep

SpecKeys == InitKeys /\ [][NextKeys]_vars

---------------------------------------------------------------------------
(* find_package on its own *)

\* repositories in sources.list
MaxRepos == 3

\* the names of load_repositories' default list
RepoNames == {"kernel", "rustica", "apps"}

\* the lists load_repositories can read from sources.list
RepoLists ==
    UNION {[1..n -> [name : RepoNames, enabled : BOOLEAN]] : n \in 0..MaxRepos}

\* the result slot before the call
Pending == [found |-> FALSE, pkg |-> Empty, repo |-> "pending"]

\* find_package applied to every list of repositories and every state of the
\* index caches
InitFind ==
    /\ repositories \in RepoLists
    /\ index \in [RepoNames -> {NoIndex, IndexV1, IndexV3, UnparsedIndex}]
    /\ vin \in [name : PkgNames]
    /\ vout = Pending
    /\ trusted = NoTrustedDir
    /\ cache = Empty
    /\ disk_db = NoDb
    /\ fs = {}
    /\ keys = Empty
    /\ ext = Empty
    /\ installed = Empty
    /\ cmd = Cmd("none", "none", FALSE, FALSE)
    /\ pc = "idle"
    /\ err = NoErr
    /\ stack = <<>>
    /\ queue = <<>>
    /\ log = <<>>
    /\ rm = NoRm
    /\ runs = 0
    /\ start = [installed |-> Empty, disk_db |-> NoDb, fs |-> {}, cache |-> Empty,
                trusted |-> NoTrustedDir, index |-> index]

\* a call of find_package(vin.name)
FindCall ==
    /\ vout.repo = "pending"
    /\ vout' = find_package(vin.name)
    /\ UNCHANGED <<runs, repositories, index, cache, disk_db, fs, keys, trusted, ext,
                   installed, cmd, pc, err, stack, queue, start, log, rm, vin>>

NextFind == FindCall

SpecFind == InitFind /\ [][NextFind]_vars

---------------------------------------------------------------------------
(* update_repositories on its own *)

\* the lists of sources.list that name each repository once
DistinctRepoLists ==
    {l \in RepoLists : \A i, j \in DOMAIN l : l[i].name = l[j].name => i = j}

\* one catalog sync, on a system where nothing was synced yet or where every
\* repository has an index in the cache
InitSync ==
    /\ repositories \in DistinctRepoLists
    /\ index \in {[r \in RepoNames |-> i] : i \in {NoIndex, IndexV1}}
    /\ vin = NoInput
    /\ vout = "none"
    /\ trusted = NoTrustedDir
    /\ cache = Empty
    /\ disk_db = NoDb
    /\ fs = {}
    /\ keys = Empty
    /\ ext = Empty
    /\ installed = Empty
    /\ cmd = Cmd("none", "none", FALSE, FALSE)
    /\ pc = "idle"
    /\ err = NoErr
    /\ stack = <<>>
    /\ queue = <<>>
    /\ log = <<>>
    /\ rm = NoRm
    /\ runs = MaxRuns - 1
    /\ start = [installed |-> Empty, disk_db |-> NoDb, fs |-> {}, cache |-> Empty,
                trusted |-> NoTrustedDir, index |-> index]

NextSync == Update

SpecSync == InitSync /\ [][NextSync]_vars

---------------------------------------------------------------------------
(* search_packages, show_package_info, list_installed *)

\* the query of search and the pattern of list ("" also stands for no pattern)
Patterns == {""} \cup PkgNames

\* str::contains on the names of the model, which are one letter long
Contains(name, pat) == pat = "" \/ pat = name

\* the lines search_packages prints from repository i on: the matches of each
\* enabled repository with a parsed index, in the order its HashMap yields them
RECURSIVE SearchLines(_, _, _, _, _)
SearchLines(repos, i, idx, query, order) ==
    IF i > Len(repos) THEN <<>>
    ELSE IF ~repos[i].enabled \/ ~idx[repos[i].name].cached
         THEN SearchLines(repos, i + 1, idx, query, order)
    ELSE LET Match(name) == /\ name \in DOMAIN idx[repos[i].name].packages
                            /\ Contains(name, query)
             hits == SelectSeq(order, Match)
         IN  [k \in DOMAIN hits |-> Event("match", hits[k])] \o
             SearchLines(repos, i + 1, idx, query, order)

\* pkg search <query>: search_packages (descriptions are not modelled, so
\* --name-only makes no difference)
Search ==
    \E query \in Patterns, order \in Orders(PkgNames) :
        /\ Begin(Cmd("search", query, FALSE, FALSE))
        /\ UNCHANGED <<repositories, index, cache, disk_db, fs, keystore, harness,
                       stack, queue>>
        /\ installed' = load_installed(disk_db)
        /\ rm' = NoRm
        /\ log' = SearchLines(repositories, 1, index, query, order)
        /\ pc' = "done"
        /\ err' = NoErr

\* PackageManager::show_package_info: what it prints, or its error
show_package_info(package, inst) ==
    IF package \in DOMAIN inst
    THEN [ok |-> TRUE, lines |-> <<Event("installed", package)>>]
    ELSE IF find_package(package).found
    THEN [ok |-> TRUE, lines |-> <<Event("available", package)>>]
    ELSE [ok |-> FALSE, lines |-> <<>>]

\* pkg info <package>
Info ==
    \E p \in PkgNames :
        /\ Begin(Cmd("info", p, FALSE, FALSE))
        /\ UNCHANGED <<repositories, index, cache, disk_db, fs, keystore, harness,
                       stack, queue>>
        /\ installed' = load_installed(disk_db)
        /\ rm' = NoRm
        /\ LET r == show_package_info(p, load_installed(disk_db))
           IN  /\ log' = r.lines
               /\ pc' = IF r.ok THEN "done" ELSE "failed"
               /\ err' = IF r.ok THEN NoErr
                         ELSE [kind |-> "PackageNotFound", reason |-> "none",
                               pkg |-> p, calls |-> {}]

\* names.sort()
SortedNames == <<"A", "B">>

\* variant: the entries that do not match are dropped from the map
list_installed_Pruned(pattern, inst) ==
    [installed |-> [n \in {m \in DOMAIN inst : Contains(m, pattern)} |-> inst[n]],
     lines |-> <<>>]

\* PackageManager::list_installed: the map it leaves and the lines it prints
list_installed(pattern, inst) ==
    LET Listed(name) == name \in DOMAIN inst /\ Contains(name, pattern)
        names == SelectSeq(SortedNames, Listed)
    IN  [installed |-> inst,
         lines |-> [k \in DOMAIN names |-> Event("installed", names[k])]]

\* pkg list [pattern]
List ==
    \E pattern \in Patterns :
        /\ Begin(Cmd("list", pattern, FALSE, FALSE))
        /\ UNCHANGED <<repositories, index, cache, disk_db, fs, keystore, harness,
                       stack, queue>>
        /\ LET r == list_installed(pattern, load_installed(disk_db))
           IN  /\ installed' = r.installed
               /\ log' = r.lines
        /\ rm' = NoRm
        /\ pc' = "done"
        /\ err' = NoErr

\* the engine with the three queries
NextQuery ==
    \/ Next
    \/ Search
    \/ Info
    \/ List

SpecQuery == Init /\ [][NextQuery]_vars

---------------------------------------------------------------------------
(* Install on a catalog with a dependency cycle *)

\* B lists its dependency A and itself
IndexSelf ==
    [cached |-> TRUE, packages |->
       [IndexV1.packages EXCEPT !["B"].dependencies = <<"A", "B">>]]

\* A depends on B and B on A
IndexRing ==
    [cached |-> TRUE, packages |->
       [IndexV1.packages EXCEPT !["A"].dependencies = <<"B">>]]

\* a system synced with one of the two catalogs, the publisher's key trusted
InitCycle ==
    /\ trusted = TrustsDev
    /\ vin = NoInput
    /\ vout = "none"
    /\ repositories = <<[name |-> "rustica", enabled |-> TRUE]>>
    /\ index \in {[r \in {"rustica"} |-> i] : i \in {IndexSelf, IndexRing}}
    /\ cache = Empty
    /\ disk_db = NoDb
    /\ fs = {}
    /\ keys = Empty
    /\ ext = Empty
    /\ installed = Empty
    /\ cmd = Cmd("none", "none", FALSE, FALSE)
    /\ pc = "idle"
    /\ err = NoErr
    /\ stack = <<>>
    /\ queue = <<>>
    /\ log = <<>>
    /\ rm = NoRm
    /\ runs = 0
    /\ start = [installed |-> Empty, disk_db |-> NoDb, fs |-> {}, cache |-> Empty,
                trusted |-> TrustsDev, index |-> index]

NextCycle ==
    \/ StartInstall
    \/ InstallStep

\* an invocation that has a step to take takes it: the process keeps running
SpecCycle == InitCycle /\ [][NextCycle]_vars /\ WF_vars(InstallStep)

---------------------------------------------------------------------------
(* Two invocations at the same time *)

\* A second process runs the package manager while the invocation of the
\* variables above is in progress.  Its state is in vin: its command, its own
\* PackageManager.installed and where it is.  Between its load and its save it
\* is taken in one step.
OtherIdle == [pc |-> "idle", op |-> "none", pkg |-> "none", installed |-> Empty]

\* the map after install_package(q, ..) has succeeded on the map given: the
\* dependencies that are not in it first (lines 473-479), then q (line 535)
RECURSIVE WithPackage(_, _)
RECURSIVE WithDeps(_, _, _)
WithDeps(deps, i, map) ==
    IF i > Len(deps) THEN map
    ELSE WithDeps(deps, i + 1, WithPackage(deps[i], map))

WithPackage(q, map) ==
    IF q \in DOMAIN map THEN map
    ELSE LET pkg == find_package(q).pkg
         IN  Put(WithDeps(pkg.dependencies, 1, map), q,
                 [version |-> pkg.version, files |-> Entries(pkg.url)])

\* PackageManager::new in the second process
OtherStart ==
    /\ vin.pc = "idle"
    /\ \E op \in {"install", "remove"}, q \in PkgNames :
          vin' = [pc |-> "loaded", op |-> op, pkg |-> q,
                  installed |-> load_installed(disk_db)]
    /\ UNCHANGED <<runs, repositories, index, cache, disk_db, fs, keystore, installed,
                   cmd, pc, err, stack, queue, start, log, rm, vout>>

\* the command of the second process, from after its load to its return: a
\* remove (lines 592-626), or an install whose downloads and extractions succeed
\* (lines 426-546), or an install that fails before it has written anything
OtherFinish ==
    /\ vin.pc = "loaded"
    /\ UNCHANGED <<runs, repositories, index, cache, keystore, installed,
                   cmd, pc, err, stack, queue, start, log, rm, vout>>
    /\ \/ /\ vin.op = "remove"
          /\ vin.pkg \notin DOMAIN vin.installed
          /\ vin' = [vin EXCEPT !.pc = "done"]
          /\ UNCHANGED <<disk_db, fs>>
       \/ /\ vin.op = "remove"
          /\ vin.pkg \in DOMAIN vin.installed
          /\ LET r == remove_package(vin.pkg, vin.installed, fs, {})
             IN  /\ fs' = r.fs
                 /\ \E out \in SaveOutcomes(disk_db, r.installed) :
                       /\ disk_db' = out.db
                       /\ vin' = [vin EXCEPT !.installed = r.installed,
                                            !.pc = IF out.ok THEN "done" ELSE "failed"]
       \/ /\ vin.op = "install"
          /\ AlreadyInstalled(vin.pkg, vin.installed) \/ ~find_package(vin.pkg).found
          /\ vin' = [vin EXCEPT !.pc = IF AlreadyInstalled(vin.pkg, vin.installed)
                                       THEN "done" ELSE "failed"]
          /\ UNCHANGED <<disk_db, fs>>
       \/ /\ vin.op = "install"
          /\ ~AlreadyInstalled(vin.pkg, vin.installed)
          /\ find_package(vin.pkg).found
          /\ \/ /\ vin' = [vin EXCEPT !.pc = "failed"]
                /\ UNCHANGED <<disk_db, fs>>
             \/ LET map == WithPackage(vin.pkg, vin.installed)
                    added == (DOMAIN map) \ (DOMAIN vin.installed)
                IN  /\ fs' = fs \cup UNION {Range(map[n].files) : n \in added}
                    /\ \E out \in SaveOutcomes(disk_db, map) :
                          /\ disk_db' = out.db
                          /\ vin' = [vin EXCEPT !.installed = map,
                                               !.pc = IF out.ok THEN "done" ELSE "failed"]

\* a catalog whose two packages do not depend on each other
IndexFlat ==
    [cached |-> TRUE, packages |->
       [IndexV1.packages EXCEPT !["B"].dependencies = <<>>]]

\* a synced system with the publisher's key trusted, on which a second process
\* may run one command at any time; two invocations of the first process are
\* followed
InitRace ==
    /\ trusted = TrustsDev
    /\ vin = OtherIdle
    /\ vout = "none"
    /\ repositories = <<[name |-> "rustica", enabled |-> TRUE]>>
    /\ index = [r \in {"rustica"} |-> IndexFlat]
    /\ cache = Empty
    /\ disk_db = NoDb
    /\ fs = {}
    /\ keys = Empty
    /\ ext = Empty
    /\ installed = Empty
    /\ cmd = Cmd("none", "none", FALSE, FALSE)
    /\ pc = "idle"
    /\ err = NoErr
    /\ stack = <<>>
    /\ queue = <<>>
    /\ log = <<>>
    /\ rm = NoRm
    /\ runs = MaxRuns - 2
    /\ start = [installed |-> Empty, disk_db |-> NoDb, fs |-> {}, cache |-> Empty,
                trusted |-> TrustsDev, index |-> index]

NextRace ==
    \/ StartInstall
    \/ InstallStep
    \/ Remove
    \/ OtherStart
    \/ OtherFinish

SpecRace == InitRace /\ [][NextRace]_vars

---------------------------------------------------------------------------
(* Several packages on one command line *)

\* the lists of two packages `pkg install` and `pkg remove` can be given
PackageLists == [1..2 -> PkgNames]

\* pkg install <package> <package> [--yes]: the loop of lines 981-985
StartInstallMany ==
    \E packages \in PackageLists, yes \in BOOLEAN :
        /\ Begin([Cmd("install", packages[1], yes, FALSE) EXCEPT !.packages = packages])
        /\ installed' = load_installed(disk_db)
        /\ stack' = <<Frame(packages[1], yes, FALSE)>>
        /\ pc' = "install"
        /\ log' = <<>>
        /\ queue' = Tail(packages)
        /\ err' = NoErr
        /\ rm' = NoRm
        /\ UNCHANGED <<repositories, index, cache, disk_db, fs, keystore, harness>>

\* pkg remove <package> <package>: PackageManager::new, then the loop of lines
\* 986-990
StartRemoveMany ==
    \E packages \in PackageLists :
        /\ Begin([Cmd("remove", packages[1], FALSE, FALSE) EXCEPT !.packages = packages])
        /\ installed' = load_installed(disk_db)
        /\ stack' = <<>>
        /\ pc' = "remove"
        /\ log' = <<>>
        /\ queue' = packages
        /\ err' = NoErr
        /\ rm' = NoRm
        /\ UNCHANGED <<repositories, index, cache, disk_db, fs, keystore, harness>>

\* one turn of the loop of lines 986-990: remove_package for the next package
\* named, Ok(()) once all are done
RemoveNext ==
    /\ pc = "remove"
    /\ UNCHANGED <<runs, repositories, index, cache, keystore, harness, cmd, start, stack>>
    /\ IF queue = <<>>
       THEN /\ pc' = "done"
            /\ UNCHANGED <<disk_db, fs, installed, err, queue, log, rm>>
       ELSE LET p == Head(queue)
            IN  IF p \notin DOMAIN installed
                THEN /\ queue' = Tail(queue)
                     /\ UNCHANGED <<disk_db, fs, installed, err, log, rm, pc>>
                ELSE \E failing \in SUBSET Range(installed[p].files) :
                       LET r == remove_package(p, installed, fs, failing)
                       IN  /\ fs' = r.fs
                           /\ installed' = r.installed
                           /\ rm' = RemovalRecord(p, installed, fs, r.fs)
                           /\ log' = Append(log, Event("removed", p))
                           /\ \E out \in SaveOutcomes(disk_db, r.installed) :
                                 /\ disk_db' = out.db
                                 /\ IF out.ok
                                    THEN /\ queue' = Tail(queue)
                                         /\ UNCHANGED <<pc, err>>
                                    ELSE /\ pc' = "failed"
                                         /\ queue' = <<>>
                                         /\ err' = SaveFailed(p)

\* three invocations on a system not yet synced or synced with the first
\* index, each a sync, an install or a remove of two packages, or an upgrade
InitBatch ==
    /\ trusted \in {NoTrustedDir, TrustsDev}
    /\ vin = NoInput
    /\ vout = "none"
    /\ repositories = <<[name |-> "rustica", enabled |-> TRUE]>>
    /\ index \in {[r \in {"rustica"} |-> i] : i \in {NoIndex, IndexV1}}
    /\ cache = Empty
    /\ disk_db = NoDb
    /\ fs = {}
    /\ keys = Empty
    /\ ext = Empty
    /\ installed = Empty
    /\ cmd = Cmd("none", "none", FALSE, FALSE)
    /\ pc = "idle"
    /\ err = NoErr
    /\ stack = <<>>
    /\ queue = <<>>
    /\ log = <<>>
    /\ rm = NoRm
    /\ runs = MaxRuns - 3
    /\ start = [installed |-> Empty, disk_db |-> NoDb, fs |-> {}, cache |-> Empty,
                trusted |-> trusted, index |-> index]

NextBatch ==
    \/ Update
    \/ StartInstallMany
    \/ InstallStep
    \/ StartRemoveMany
    \/ RemoveNext
    \/ StartUpgrade
    \/ UpgradeNext

SpecBatch == InitBatch /\ [][NextBatch]_vars

---------------------------------------------------------------------------
(* sign_package_file followed by verify_package_signature *)

\* the name of the key sign_package_file uses when --key is not given
DefaultKey == "default"

\* variant: the signature bytes are written as they are, not base64 encoded
sign_package_file_Raw(package_data, key_name, ks) ==
    LET name == IF key_name = NoKey THEN DefaultKey ELSE key_name
    IN  IF name \notin DOMAIN ks THEN [ok |-> FALSE, sig |-> NoSig]
        ELSE IF ks[name].secret.len # 32 THEN [ok |-> FALSE, sig |-> NoSig]
        ELSE [ok |-> TRUE, sig |-> NotBase64]

\* PackageManager::sign_package_file on the bytes of the package file: the
\* content of the .sig file it writes, or its failure.  ks is the keys area
sign_package_file(package_data, key_name, ks) ==
    LET name == IF key_name = NoKey THEN DefaultKey ELSE key_name
    IN  IF name \notin DOMAIN ks THEN [ok |-> FALSE, sig |-> NoSig]
        ELSE IF ks[name].secret.len # 32 THEN [ok |-> FALSE, sig |-> NoSig]
        ELSE [ok |-> TRUE, sig |-> SigB64(ks[name].secret.mat, package_data)]

\* the secret key files a keys area can hold: a seed, or a file cut short
SecretFiles == {KeyFile(k) : k \in KeyMats} \cup {ShortKeyFile}

\* the keys areas: each key present holds a secret file and a public key file
\* (which sign_package_file does not read)
KeyAreas ==
    UNION {[S -> {[secret |-> sf, public |-> KeyFile("k1")] : sf \in SecretFiles}] :
              S \in SUBSET (KeyNames \cup {DefaultKey})}

SignInputs ==
    [key_name : {NoKey} \cup KeyNames,
     data : {"A1", "X"},
     check : {"A1", "X"},
     signer_key : {NoKey} \cup KeyNames]

Unsigned == [signed |-> FALSE, ok |-> FALSE, sig |-> NoSig, res |-> "pending"]

\* every keys area, trusted-keys directory, buffer to sign, buffer to verify and
\* signer named
InitSign ==
    /\ keys \in KeyAreas
    /\ trusted \in TrustedStores
    /\ vin \in SignInputs
    /\ vout = Unsigned
    /\ repositories = <<[name |-> "rustica", enabled |-> TRUE]>>
    /\ index = [r \in {"rustica"} |-> NoIndex]
    /\ cache = Empty
    /\ disk_db = NoDb
    /\ fs = {}
    /\ ext = Empty
    /\ installed = Empty
    /\ cmd = Cmd("none", "none", FALSE, FALSE)
    /\ pc = "idle"
    /\ err = NoErr
    /\ stack = <<>>
    /\ queue = <<>>
    /\ log = <<>>
    /\ rm = NoRm
    /\ runs = 0
    /\ start = [installed |-> Empty, disk_db |-> NoDb, fs |-> {}, cache |-> Empty,
                trusted |-> trusted, index |-> index]

\* pkg sign-package <file> [--key <name>] on a file holding vin.data
SignCall ==
    /\ ~vout.signed
    /\ LET r == sign_package_file(vin.data, vin.key_name, keys)
       IN  vout' = [signed |-> TRUE, ok |-> r.ok, sig |-> r.sig, res |-> "pending"]
    /\ UNCHANGED <<runs, repositories, index, cache, disk_db, fs, keys, trusted, ext,
                   installed, cmd, pc, err, stack, queue, start, log, rm, vin>>

\* verify_package_signature on the buffer vin.check with the signature written
VerifySigned ==
    /\ vout.signed
    /\ vout.ok
    /\ vout.res = "pending"
    /\ vout' = [vout EXCEPT !.res = verify_package_signature(vin.check, vout.sig,
                                                             vin.signer_key, trusted)]
    /\ UNCHANGED <<runs, repositories, index, cache, disk_db, fs, keys, trusted, ext,
                   installed, cmd, pc, err, stack, queue, start, log, rm, vin>>

NextSign ==
    \/ SignCall
    \/ VerifySigned

SpecSign == InitSign /\ [][NextSign]_vars

---------------------------------------------------------------------------
(* remove_package step by step *)

\* one turn of the loop of lines 604-617 on the file given: the disk it leaves;
\* fails says that the deletion returns an error, which .ok() discards
RemoveOne(file, disk, pkg, inst, fails) ==
    IF file \notin disk THEN disk
    ELSE IF is_file_shared(file, pkg, inst) THEN disk
    ELSE IF fails THEN disk
    ELSE disk \ Subtree(file)

\* variant: the entry is dropped and saved while files are still to be visited
LoopFinished_Early(files_left) == TRUE

\* lines 619-621 come after the loop over installed.files
LoopFinished(files_left) == files_left = <<>>

\* pkg remove <package>, up to the loop over the files of the package
StartRemove ==
    \E p \in PkgNames :
        /\ Begin(Cmd("remove", p, FALSE, FALSE))
        /\ UNCHANGED <<repositories, index, cache, disk_db, fs, keystore, harness, stack>>
        /\ installed' = load_installed(disk_db)
        /\ err' = NoErr
        /\ rm' = NoRm
        /\ log' = <<>>
        /\ IF p \notin DOMAIN load_installed(disk_db)
           THEN pc' = "done" /\ queue' = <<>>
           ELSE pc' = "remove_files" /\ queue' = load_installed(disk_db)[p].files

\* one turn of the loop: queue holds the files still to be visited
RemoveLoop ==
    /\ pc = "remove_files"
    /\ queue # <<>>
    /\ \E fails \in BOOLEAN :
          fs' = RemoveOne(Head(queue), fs, cmd.pkg, installed, fails)
    /\ queue' = Tail(queue)
    /\ log' = Append(log, Event("visited", Head(queue)))
    /\ UNCHANGED <<runs, repositories, index, cache, disk_db, keystore, harness,
                   installed, cmd, pc, err, stack, start, rm>>

\* lines 619-625: the entry is taken out of the map and the map is saved
RemoveEntry ==
    /\ pc = "remove_files"
    /\ LoopFinished(queue)
    /\ installed' = Del(installed, cmd.pkg)
    /\ log' = Append(log, Event("removed", cmd.pkg))
    /\ \E out \in SaveOutcomes(disk_db, installed') :
          /\ disk_db' = out.db
          /\ pc' = IF out.ok THEN "done" ELSE "failed"
          /\ err' = IF out.ok THEN NoErr ELSE SaveFailed(cmd.pkg)
    /\ UNCHANGED <<runs, repositories, index, cache, fs, keystore, harness, cmd,
                   stack, queue, start, rm>>

\* a synced system with the publisher's key trusted
InitRemove ==
    /\ trusted = TrustsDev
    /\ vin = NoInput
    /\ vout = "none"
    /\ repositories = <<[name |-> "rustica", enabled |-> TRUE]>>
    /\ index = [r \in {"rustica"} |-> IndexV1]
    /\ cache = Empty
    /\ disk_db = NoDb
    /\ fs = {}
    /\ keys = Empty
    /\ ext = Empty
    /\ installed = Empty
    /\ cmd = Cmd("none", "none", FALSE, FALSE)
    /\ pc = "idle"
    /\ err = NoErr
    /\ stack = <<>>
    /\ queue = <<>>
    /\ log = <<>>
    /\ rm = NoRm
    /\ runs = 0
    /\ start = [installed |-> Empty, disk_db |-> NoDb, fs |-> {}, cache |-> Empty,
                trusted |-> TrustsDev, index |-> index]

NextRemove ==
    \/ StartInstall
    \/ InstallStep
    \/ StartRemove
    \/ RemoveLoop
    \/ RemoveEntry

SpecRemove == InitRemove /\ [][NextRemove]_vars

---------------------------------------------------------------------------
(* Install of packages without a signature *)

\* the catalog of independent packages with the checksum of B filled in
IndexFlatSummed ==
    [cached |-> TRUE, packages |->
       [IndexFlat.packages EXCEPT !["B"].checksum = compute_checksum("B1")]]

\* a synced system whose disk has the directory /opt, with or without a
\* trusted-keys directory; B has no signature, and has a checksum or not; three
\* invocations are followed
InitUnsigned ==
    /\ trusted \in {NoTrustedDir, TrustsDev}
    /\ vin = NoInput
    /\ vout = "none"
    /\ repositories = <<[name |-> "rustica", enabled |-> TRUE]>>
    /\ index \in {[r \in {"rustica"} |-> i] : i \in {IndexFlat, IndexFlatSummed}}
    /\ cache = Empty
    /\ disk_db = NoDb
    /\ fs = {"/opt/"}
    /\ keys = Empty
    /\ ext = Empty
    /\ installed = Empty
    /\ cmd = Cmd("none", "none", FALSE, FALSE)
    /\ pc = "idle"
    /\ err = NoErr
    /\ stack = <<>>
    /\ queue = <<>>
    /\ log = <<>>
    /\ rm = NoRm
    /\ runs = MaxRuns - 3
    /\ start = [installed |-> Empty, disk_db |-> NoDb, fs |-> fs, cache |-> Empty,
                trusted |-> trusted, index |-> index]

NextUnsigned ==
    \/ StartInstall
    \/ InstallStep
    \/ Remove

SpecUnsigned == InitUnsigned /\ [][NextUnsigned]_vars

---------------------------------------------------------------------------
(* An install that is killed *)

\* the process is killed while install_package runs.  What the step in progress
\* had written stays: a download may or may not have written its file, an
\* extraction leaves the entries it had unpacked, a save_installed in progress
\* leaves the file as it was, truncated or complete
Kill ==
    /\ pc = "install"
    /\ log' = log
    /\ Fail("Killed", Top.pc)
    /\ UNCHANGED <<runs, repositories, index, keystore, harness, installed, cmd,
                   start, rm>>
    /\ cache' \in {cache} \cup
                  (IF Top.pc = "download"
                   THEN {Put(cache, PackageFile(Top), d) : d \in Served(Top.entry.url)}
                   ELSE {})
    /\ IF Top.pc = "extract"
       THEN LET entries == Entries(cache[PackageFile(Top)])
            IN  \E k \in 0..Len(entries) :
                   /\ Unpackable(entries, k, fs)
                   /\ fs' = Unpacked(entries, k, fs)
       ELSE fs' = fs
    /\ IF Top.pc = "record"
       THEN \E out \in SaveOutcomes(disk_db, Put(installed, Top.pkg, InstalledPackage(Top))) :
               disk_db' = out.db
       ELSE disk_db' = disk_db

NextCrash ==
    \/ StartInstall
    \/ InstallStep
    \/ Kill

SpecCrash == InitRemove /\ [][NextCrash]_vars

---------------------------------------------------------------------------
(* Install and remove along a chain of dependencies *)

\* a catalog with a third package: C depends on B, which depends on A
IndexChain ==
    [cached |-> TRUE, packages |->
       [p \in PkgNames \cup {"C"} |->
          IF p = "C"
          THEN [version |-> "1.0", dependencies |-> <<"B">>, url |-> "X",
                checksum |-> "", signature |-> NoSig, signer_key |-> NoKey,
                capabilities |-> <<>>]
          ELSE IndexV1.packages[p]]]

\* pkg install C [--yes] [--download-only]
StartInstallC ==
    \E yes \in BOOLEAN, download_only \in BOOLEAN :
        /\ Begin(Cmd("install", "C", yes, download_only))
        /\ installed' = load_installed(disk_db)
        /\ stack' = <<Frame("C", yes, download_only)>>
        /\ pc' = "install"
        /\ log' = <<>>
        /\ queue' = <<>>
        /\ err' = NoErr
        /\ rm' = NoRm
        /\ UNCHANGED <<repositories, index, cache, disk_db, fs, keystore, harness>>

\* a synced system with the publisher's key trusted and the chain in the
\* catalog; three invocations are followed
InitChain ==
    /\ trusted = TrustsDev
    /\ vin = NoInput
    /\ vout = "none"
    /\ repositories = <<[name |-> "rustica", enabled |-> TRUE]>>
    /\ index = [r \in {"rustica"} |-> IndexChain]
    /\ cache = Empty
    /\ disk_db = NoDb
    /\ fs = {}
    /\ keys = Empty
    /\ ext = Empty
    /\ installed = Empty
    /\ cmd = Cmd("none", "none", FALSE, FALSE)
    /\ pc = "idle"
    /\ err = NoErr
    /\ stack = <<>>
    /\ queue = <<>>
    /\ log = <<>>
    /\ rm = NoRm
    /\ runs = MaxRuns - 3
    /\ start = [installed |-> Empty, disk_db |-> NoDb, fs |-> {}, cache |-> Empty,
                trusted |-> TrustsDev, index |-> index]

NextChain ==
    \/ StartInstall
    \/ StartInstallC
    \/ InstallStep
    \/ Remove

SpecChain == InitChain /\ [][NextChain]_vars

---------------------------------------------------------------------------
(* Termination of install on an acyclic catalog *)

\* the chain with A listed by C as well: A is reached from C along two paths
IndexDiamond ==
    [cached |-> TRUE, packages |->
       [IndexChain.packages EXCEPT !["C"].dependencies = <<"B", "A">>]]

\* a synced system with the publisher's key trusted and an acyclic catalog of
\* three packages; three invocations are followed
InitAcyclic ==
    /\ trusted = TrustsDev
    /\ vin = NoInput
    /\ vout = "none"
    /\ repositories = <<[name |-> "rustica", enabled |-> TRUE]>>
    /\ index \in {[r \in {"rustica"} |-> i] : i \in {IndexChain, IndexDiamond}}
    /\ cache = Empty
    /\ disk_db = NoDb
    /\ fs = {}
    /\ keys = Empty
    /\ ext = Empty
    /\ installed = Empty
    /\ cmd = Cmd("none", "none", FALSE, FALSE)
    /\ pc = "idle"
    /\ err = NoErr
    /\ stack = <<>>
    /\ queue = <<>>
    /\ log = <<>>
    /\ rm = NoRm
    /\ runs = MaxRuns - 3
    /\ start = [installed |-> Empty, disk_db |-> NoDb, fs |-> {}, cache |-> Empty,
                trusted |-> TrustsDev, index |-> index]

NextAcyclic ==
    \/ StartInstall
    \/ StartInstallC
    \/ InstallStep

\* every download and file operation returns: a call in progress takes its
\* next step
SpecAcyclic == InitAcyclic /\ [][NextAcyclic]_vars /\ WF_vars(InstallStep)

---------------------------------------------------------------------------
(* Claims *)

\* C1: remove_package never deletes from the disk a path that another package
\* installed at that time lists in its files, the paths a recursive directory
\* deletion takes with it included.
C1_RemoveSparesOthers == rm.deleted \cap rm.others = {}

\* a removal that deleted a path another installed package lists
C1_Shared == rm.pkg # "none" /\ rm.deleted \cap rm.others # {}

\* the persisted database as the next invocation will load it
Persisted == load_installed(disk_db)

\* the event e is in the log before position i
LoggedBefore(e, i) == \E j \in 1..(i - 1) : log[j] = e

\* the bytes in the cache for the call f pass the catalog's checksum, when it
\* has one, and verify under a trusted key, when it has a signature
ArtifactPasses(f) ==
    /\ PackageFile(f) \in DOMAIN cache
    /\ \/ f.entry.checksum = ""
       \/ compute_checksum(cache[PackageFile(f)]) = f.entry.checksum
    /\ \/ f.entry.signature = NoSig
       \/ /\ trusted.exists
          /\ \E n \in DOMAIN trusted.files :
                /\ f.entry.signer_key \in {NoKey, n}
                /\ trusted.files[n].len = 32
                /\ f.entry.signature.kind = "sig64"
                /\ f.entry.signature.key = trusted.files[n].mat
                /\ f.entry.signature.data = cache[PackageFile(f)]

\* a step that puts a path on the disk or changes a package's persisted entry
Writes ==
    \/ fs' \ fs # {}
    \/ \E p \in DOMAIN load_installed(disk_db') :
          \/ p \notin DOMAIN Persisted
          \/ load_installed(disk_db')[p] # Persisted[p]

\* C2: a step of Install writes a file under the install root or records a
\* package only for a call whose downloaded bytes have passed the checksum
\* comparison and the signature verification, after the stages Download and
\* Verify of that package (and Extract, for the record), in this order.
C2_VerifyBeforeWrite ==
    [][Writes =>
          /\ pc = "install"
          /\ Top.pc \in {"extract", "record"}
          /\ ArtifactPasses(Top)
          /\ \E i \in DOMAIN log :
                /\ log[i] = Event("verified", Top.pkg)
                /\ LoggedBefore(Event("download", Top.pkg), i)
                /\ \A j \in DOMAIN log : log[j] = Event("extract", Top.pkg) => i < j
          /\ Top.pc = "record" =>
                /\ Event("extract", Top.pkg) \in Range(log)
                /\ log' = Append(log, Event("recorded", Top.pkg))]_vars

\* a signed package with a checksum has been extracted and recorded
C2_Recorded ==
    /\ Event("recorded", "A") \in Range(log)
    /\ "A" \in DOMAIN Persisted
    /\ Persisted["A"].version = "1.0"
    /\ {"/opt/", "/opt/a", "/usr/lib/libx.so"} \subseteq fs

\* C3: when a call Install(name) has failed after its already-installed check,
\* the persisted database holds no entry for name.
C3_FailedInstallNotRecorded ==
    (pc = "failed" /\ cmd.op \in {"install", "upgrade"}) =>
        \A name \in err.calls : name \notin DOMAIN Persisted

\* Install of a package failed in save_installed after the insert, inside the
\* install of a package that depends on it
C3_SaveFailed ==
    /\ pc = "failed"
    /\ err.kind = "DatabaseIoError"
    /\ err.calls = {"A", "B"}
    /\ err.pkg \in DOMAIN installed

\* a step of install_package at the checksum test, on bytes whose digest
\* differs from the catalog's non-empty checksum
MismatchStep ==
    /\ pc = "install"
    /\ Top.pc = "verify"
    /\ Top.entry.checksum # ""
    /\ compute_checksum(cache[PackageFile(Top)]) # Top.entry.checksum
    /\ stack' # stack

\* C4: on a checksum mismatch Install deletes the artifact from the cache,
\* fails with ChecksumMismatch, extracts nothing and leaves the database
\* without an entry for the package.
C4_MismatchDeletesAndFails ==
    [][MismatchStep =>
          /\ PackageFile(Top) \notin DOMAIN cache'
          /\ pc' = "failed"
          /\ err'.kind = "ChecksumMismatch"
          /\ fs' = fs
          /\ Top.pkg \notin DOMAIN load_installed(disk_db')]_vars

\* a step of install_package at the signature test, on bytes that passed the
\* checksum test and for which verify_package_signature returns an error
BadSignatureStep ==
    /\ pc = "install"
    /\ Top.pc = "verify"
    /\ \/ Top.entry.checksum = ""
       \/ compute_checksum(cache[PackageFile(Top)]) = Top.entry.checksum
    /\ Top.entry.signature # NoSig
    /\ verify_package_signature(cache[PackageFile(Top)], Top.entry.signature,
                                Top.entry.signer_key, trusted) # "Ok"
    /\ stack' # stack

\* C5: when the catalog entry carries a signature whose verification against
\* the downloaded bytes fails, Install deletes the artifact, fails with
\* SignatureInvalid, extracts nothing and records nothing.
C5_BadSignatureDeletesAndFails ==
    [][BadSignatureStep =>
          /\ PackageFile(Top) \notin DOMAIN cache'
          /\ pc' = "failed"
          /\ err'.kind = "SignatureInvalid"
          /\ fs' = fs
          /\ disk_db' = disk_db
          /\ Top.pkg \notin DOMAIN load_installed(disk_db')]_vars

\* C6: Install of a name that is in the database ends in success having
\* resolved nothing, fetched nothing and prompted for nothing, with the
\* database, in memory and persisted, the disk and the cache as they were.
C6_AlreadyInstalledNoOp ==
    (cmd.op = "install" /\ cmd.pkg \in DOMAIN start.installed) =>
        /\ pc \in {"install", "done"}
        /\ pc = "install" => (Len(stack) = 1 /\ Top.pc = "begin")
        /\ log = <<>>
        /\ installed = start.installed
        /\ disk_db = start.disk_db
        /\ fs = start.fs
        /\ cache = start.cache

\* Install of an installed package has returned
C6_Reinstalled ==
    /\ cmd.op = "install"
    /\ cmd.pkg \in DOMAIN start.installed
    /\ pc = "done"

\* the dependencies the catalog lists for package
DepsOf(package) == Range(find_package(package).pkg.dependencies)

\* C7: in a run of Install, a package that the run records has every one of its
\* catalog dependencies in the database, in memory and persisted, and a
\* dependency that was not installed when the run began was recorded by the run
\* before the package was.
C7_DependencyFirst ==
    cmd.op = "install" =>
        /\ \A P \in (DOMAIN installed) \ (DOMAIN start.installed) :
              \A D \in DepsOf(P) : D \in DOMAIN installed
        /\ \A P \in (DOMAIN Persisted) \ (DOMAIN start.installed) :
              \A D \in DepsOf(P) : D \in DOMAIN Persisted
        /\ \A i \in DOMAIN log :
              log[i].ev = "recorded" =>
                 \A D \in DepsOf(log[i].pkg) \ (DOMAIN start.installed) :
                    LoggedBefore(Event("recorded", D), i)

\* Install of B has recorded B after its dependency A, which was not installed
C7_BothRecorded ==
    /\ cmd.op = "install"
    /\ cmd.pkg = "B"
    /\ "A" \notin DOMAIN start.installed
    /\ {"A", "B"} \subseteq DOMAIN Persisted
    /\ pc = "done"

\* the key materials of the keys in the trusted-keys area
TrustedMats(tk) ==
    IF tk.exists
    THEN {tk.files[n].mat : n \in {m \in DOMAIN tk.files : tk.files[m].len = 32}}
    ELSE {}

\* a step of install_package that accepts the signature of the catalog entry
AcceptStep ==
    /\ pc = "install"
    /\ Top.pc = "verify"
    /\ Top.entry.signature # NoSig
    /\ log' = Append(log, Event("verified", Top.pkg))

\* the trusted-keys area changes by import_public_key with trust set, on a
\* valid key file
ImportedStep ==
    /\ cmd'.op = "import-key"
    /\ cmd'.yes
    /\ ext[cmd'.pkg].len = 32
    /\ trusted' = [exists |-> TRUE,
                   files |-> Put(trusted.files, cmd'.pkg, ext[cmd'.pkg])]

\* the trusted-keys area changes by export_public_key writing the public key
\* of a keypair to an --output path that lies in that area
ExportedStep ==
    /\ cmd'.op = "export-key"
    /\ cmd'.output.dir = "trusted_keys"
    /\ cmd'.pkg \in DOMAIN keys
    /\ trusted' = [exists |-> TRUE,
                   files |-> Put(trusted.files, cmd'.output.name,
                                 keys[cmd'.pkg].public)]

\* Install accepts a signature only when it verifies, for the downloaded bytes,
\* under a key that is in the trusted-keys area at that moment, whatever the
\* private keys area holds
AcceptedUnderTrustedKey ==
    AcceptStep =>
        /\ Top.entry.signature.kind = "sig64"
        /\ Top.entry.signature.data = cache[PackageFile(Top)]
        /\ Top.entry.signature.key \in TrustedMats(trusted)

WellFormed(sig) == sig.kind = "sig64"

\* the signer named in the verifier's input has a file in the trusted-keys area
SignerPresent == vin.trusted.exists /\ vin.signer_key \in DOMAIN vin.trusted.files

\* C9: for a signature that decodes to 64 bytes and a signer_key that is given,
\* verify_package_signature fails with UnknownSigner when <signer_key>.pub is
\* not in the trusted-keys area, with MalformedKey when that file is not 32
\* bytes long, and succeeds exactly when the signature verifies under that very
\* key: a signature that only another trusted key verifies is rejected.
C9_NamedSignerOnly ==
    (vout # "none" /\ vin.signer_key # NoKey) =>
        /\ ~WellFormed(vin.sig) => vout = "MalformedSignature"
        /\ (WellFormed(vin.sig) /\ ~SignerPresent) => vout = "UnknownSigner"
        /\ (WellFormed(vin.sig) /\ SignerPresent
              /\ vin.trusted.files[vin.signer_key].len # 32) => vout = "MalformedKey"
        /\ vout = "Ok" <=>
              /\ WellFormed(vin.sig)
              /\ SignerPresent
              /\ vin.trusted.files[vin.signer_key].len = 32
              /\ vin.trusted.files[vin.signer_key].mat = vin.sig.key
              /\ vin.sig.data = vin.data

\* a signature that verifies under the trusted key ci only has been rejected
\* for the named signer dev
C9_OtherKeyRejected ==
    /\ vin.signer_key = "dev"
    /\ vin.sig = SigB64("k1", vin.data)
    /\ vin.trusted.exists
    /\ DOMAIN vin.trusted.files = {"dev", "ci"}
    /\ vin.trusted.files["dev"] = KeyFile("k2")
    /\ vin.trusted.files["ci"] = KeyFile("k1")
    /\ vout = "BadSignature"

\* some key of the trusted-keys area verifies the signature over the data
SomeTrustedKeyVerifies ==
    /\ WellFormed(vin.sig)
    /\ vin.sig.data = vin.data
    /\ vin.sig.key \in KeyMats
    /\ vin.sig.key \in TrustedMats(vin.trusted)

\* C10: with no signer given, verify_package_signature succeeds exactly when
\* some key of the trusted-keys area verifies the signature over the bytes;
\* when none does, the area being empty or missing included, a signature that
\* decodes to 64 bytes fails with NoTrustedSignerMatched.
C10_AnyTrustedKey ==
    (vout # "none" /\ vin.signer_key = NoKey) =>
        /\ vout = "Ok" <=> SomeTrustedKeyVerifies
        /\ (WellFormed(vin.sig) /\ ~SomeTrustedKeyVerifies) =>
              vout = "NoTrustedSignerMatched"

\* accepted under the second of two trusted keys
C10_SecondKeyAccepts ==
    /\ vin.signer_key = NoKey
    /\ vin.trusted.exists
    /\ DOMAIN vin.trusted.files = {"dev", "ci"}
    /\ vin.trusted.files["dev"] = KeyFile("k2")
    /\ vin.trusted.files["ci"] = KeyFile("k1")
    /\ vin.sig = SigB64("k1", vin.data)
    /\ vout = "Ok"

\* a remove invocation for a name the database did not hold has exited
RemovedAbsent ==
    /\ cmd.op = "remove"
    /\ cmd.pkg \notin DOMAIN start.installed
    /\ pc \in {"done", "failed"}

\* C11: Remove of a name that is not in the database fails with
\* PackageNotInstalled and leaves the database and the disk as they were.
C11_RemoveAbsentFails ==
    RemovedAbsent =>
        /\ pc = "failed"
        /\ err.kind = "PackageNotInstalled"
        /\ disk_db = start.disk_db
        /\ fs = start.fs

\* a remove invocation for a package the database held has exited
RemovedInstalled ==
    /\ cmd.op = "remove"
    /\ cmd.pkg \in DOMAIN start.installed
    /\ pc \in {"done", "failed"}

\* another package of the database the invocation loaded lists the path
ListedByAnother(file) ==
    \E n \in (DOMAIN start.installed) \ {cmd.pkg} :
        \E i \in DOMAIN start.installed[n].files : start.installed[n].files[i] = file

\* C12: of the paths the removed package lists that were on the disk, Remove
\* leaves those that another installed package lists and deletes the others: a
\* shared path stays until its last installed owner is removed.
C12_SharedUntilLastOwner ==
    RemovedInstalled =>
        \A file \in Range(start.installed[cmd.pkg].files) \cap start.fs :
            file \in fs <=> ListedByAnother(file)

\* the packages installed at the start of the invocation that an enabled
\* repository's cached index resolves to another version
Upgradable ==
    {n \in DOMAIN start.installed :
        /\ find_package(n).found
        /\ find_package(n).pkg.version # start.installed[n].version}

\* the packages the invocation has called remove_package for
Processed == {log[i].pkg : i \in {j \in DOMAIN log : log[j].ev = "removed"}}

UpgradeSucceeded ==
    /\ cmd.op = "upgrade"
    /\ pc = "done"
    /\ Processed # {}

\* C14: when Upgrade has returned success after processing its queue, every
\* queued package is in the database, in memory and persisted, at the version
\* the catalog resolves for it and with exactly the paths of the artifact
\* downloaded for that version as its files.
C14_UpgradeReplacesEntry ==
    UpgradeSucceeded =>
        \A p \in Upgradable :
            /\ p \in DOMAIN installed
            /\ p \in DOMAIN Persisted
            /\ Persisted[p] = installed[p]
            /\ installed[p].version = find_package(p).pkg.version
            /\ <<p, installed[p].version>> \in DOMAIN cache
            /\ installed[p].files = Entries(cache[<<p, installed[p].version>>])

\* Upgrade has replaced both A and B, whose new archives list other paths
C14_BothUpgraded ==
    /\ UpgradeSucceeded
    /\ Upgradable = {"A", "B"}
    /\ installed["A"].version = "1.1"
    /\ installed["A"].files # start.installed["A"].files
    /\ installed["B"].version = "1.1"

\* the event at position i is remove_package of a queued package
IsRemoval(i) == log[i].ev = "removed"

\* the install that follows the removal logged at position i has recorded
RecordedAfter(i) == \E k \in DOMAIN log : k > i /\ log[k] = Event("recorded", log[i].pkg)

\* C15: Upgrade takes the queued packages one at a time, remove_package first
\* and install_package of the same package right after it, the next package
\* only once that install has recorded; when the install fails Upgrade fails,
\* and the package has no entry in the persisted database.
C15_RemoveThenInstall ==
    cmd.op = "upgrade" =>
        /\ \A i \in DOMAIN log :
              IsRemoval(i) =>
                 /\ i < Len(log) => log[i + 1] = Event("resolve", log[i].pkg)
                 /\ \A j \in DOMAIN log : (j > i /\ IsRemoval(j)) =>
                       \E k \in (i + 1)..(j - 1) : log[k] = Event("recorded", log[i].pkg)
                 /\ pc \in {"upgrade", "done"} => RecordedAfter(i)
                 /\ (pc = "failed" /\ err.calls # {} /\ ~RecordedAfter(i)) =>
                       /\ log[i].pkg \in err.calls
                       /\ log[i].pkg \notin DOMAIN Persisted
        /\ pc = "install" => Event("removed", stack[1].pkg) \in Range(log)

\* Upgrade has replaced A, removed B and failed in the install of B, which is
\* no longer in the database
C15_SecondInstallFailed ==
    /\ cmd.op = "upgrade"
    /\ pc = "failed"
    /\ Processed = {"A", "B"}
    /\ err.calls = {"B"}
    /\ "B" \in DOMAIN start.installed
    /\ "B" \notin DOMAIN Persisted
    /\ "A" \in DOMAIN Persisted

\* some enabled repository has a cached index that contains the name
InSomeEnabledIndex(name) ==
    \E i \in DOMAIN repositories :
        /\ repositories[i].enabled
        /\ index[repositories[i].name].cached
        /\ name \in DOMAIN index[repositories[i].name].packages

\* C16: Install of a name that is not installed and that no enabled
\* repository's cached index contains fails with PackageNotFound; nothing has
\* been downloaded and the database is as it was.
C16_UnknownPackageFails ==
    (/\ cmd.op = "install"
     /\ cmd.pkg \notin DOMAIN start.installed
     /\ ~InSomeEnabledIndex(cmd.pkg)) =>
        /\ \/ pc = "install" /\ Len(stack) = 1 /\ Top.pc = "begin"
           \/ pc = "failed" /\ err.kind = "PackageNotFound" /\ err.pkg = cmd.pkg
        /\ \A i \in DOMAIN log : log[i] = Event("resolve", cmd.pkg)
        /\ cache = start.cache
        /\ installed = start.installed
        /\ disk_db = start.disk_db
        /\ fs = start.fs

\* Install of B has failed on a synced catalog from which B was withdrawn
C16_WithdrawnNotFound ==
    /\ cmd.op = "install"
    /\ cmd.pkg = "B"
    /\ index["rustica"].cached
    /\ "A" \in DOMAIN index["rustica"].packages
    /\ "B" \notin DOMAIN index["rustica"].packages
    /\ pc = "failed"
    /\ err.kind = "PackageNotFound"

\* the positions of the repositories that are enabled and whose cached index
\* contains the name asked for
Hits ==
    {i \in DOMAIN repositories :
        /\ repositories[i].enabled
        /\ index[repositories[i].name].cached
        /\ vin.name \in DOMAIN index[repositories[i].name].packages}

FirstHit == CHOOSE i \in Hits : \A j \in Hits : i <= j

\* C17: find_package returns the entry of the first repository of the list that
\* is enabled and whose cached index contains the name, whatever disabled
\* repositories and repositories without a cache stand before it, and
\* PackageNotFound exactly when there is no such repository.
C17_FirstEnabledMatch ==
    vout.repo # "pending" =>
        IF Hits = {}
        THEN ~vout.found
        ELSE /\ vout.found
             /\ vout.repo = repositories[FirstHit].name
             /\ vout.pkg = index[vout.repo].packages[vin.name]

\* the match is in the third repository: the first is disabled and has the name
\* in its cache, the second is enabled and was never synced
C17_ThirdRepository ==
    /\ Len(repositories) = 3
    /\ vin.name = "A"
    /\ ~repositories[1].enabled
    /\ index[repositories[1].name] = IndexV1
    /\ repositories[2].enabled
    /\ index[repositories[2].name] = NoIndex
    /\ repositories[3].enabled
    /\ index[repositories[3].name] = IndexV3
    /\ vout.found
    /\ vout.repo = repositories[3].name
    /\ vout.pkg.version = "1.1"

\* the enabled repositories, in the order of the list
EnabledRepos == SelectSeq(repositories, LAMBDA r : r.enabled)

\* the repository at position i of the log was fetched and its outcome logged
FetchLogged(i) ==
    /\ log[i].pkg = EnabledRepos[i].name
    /\ log[i].ev \in {"cached", "download_failed", "parse_failed", "write_failed"}
    /\ log[i].ev = "cached" =>
          /\ index[log[i].pkg] \in Published
          /\ \E j \in DOMAIN repositories : repositories[j].name = log[i].pkg
    /\ log[i].ev \in {"download_failed", "parse_failed"} =>
          index[log[i].pkg] = start.index[log[i].pkg]

\* C18: a sync fetches the enabled repositories in list order and no disabled
\* one; a download or parse failure for a repository leaves that repository's
\* cache as it was and the loop goes on with the next, every other enabled
\* repository being fetched and cached; the sync returns success unless writing
\* a cache file fails.
C18_SyncSkipsFailures ==
    cmd.op = "update" =>
        /\ Len(log) <= Len(EnabledRepos)
        /\ \A i \in DOMAIN log : FetchLogged(i)
        /\ \A r \in RepoNames :
              (\A i \in DOMAIN log : log[i].pkg # r) => index[r] = start.index[r]
        /\ pc = "done" => /\ Len(log) = Len(EnabledRepos)
                          /\ \A i \in DOMAIN log : log[i].ev # "write_failed"
        /\ pc = "failed" => /\ log # <<>>
                            /\ log[Len(log)].ev = "write_failed"
                            /\ err.kind = "IoError"

\* the sync has returned success with the first repository disabled, the
\* download of the second failed and the third cached
C18_OneFailedOneCached ==
    /\ cmd.op = "update"
    /\ pc = "done"
    /\ Len(repositories) = 3
    /\ ~repositories[1].enabled
    /\ index[repositories[1].name] = NoIndex
    /\ log = <<Event("download_failed", repositories[2].name),
               Event("cached", repositories[3].name)>>
    /\ index[repositories[3].name].cached

\* the operator's line at position i + 1 answers the install prompt at i with
\* a line that reads "n" once trimmed and lowercased
DeclinedAt(i) ==
    /\ log[i].ev \in {"prompt_caps", "prompt_deps"}
    /\ i < Len(log)
    /\ TrimLower(log[i + 1].ev) = "n"

\* C19: an install whose capability or dependency prompt is declined returns
\* success at once: nothing follows the answer, nothing was downloaded,
\* verified, extracted or recorded, no dependency was looked up, and the
\* database, the install root and the cache are as the invocation found them
C19_DeclineIsCleanAbort ==
    cmd.op = "install" =>
        \A i \in DOMAIN log :
            DeclinedAt(i) =>
                /\ Len(log) = i + 1
                /\ pc = "done"
                /\ err = NoErr
                /\ stack = <<>>
                /\ \A j \in DOMAIN log :
                      /\ log[j].pkg = cmd.pkg
                      /\ log[j].ev \notin {"download", "verified", "extract", "recorded"}
                /\ installed = start.installed
                /\ disk_db = start.disk_db
                /\ fs = start.fs
                /\ cache = start.cache

\* B, which has a dependency not yet installed, was requested without --yes;
\* the capability prompt was accepted and the dependency prompt declined
C19_DependencyPromptDeclined ==
    /\ cmd.op = "install"
    /\ cmd.pkg = "B"
    /\ "A" \notin DOMAIN start.installed
    /\ log = <<Event("resolve", "B"), Event("prompt_caps", "B"), Event("y", "B"),
               Event("prompt_deps", "B"), Event("N", "B")>>
    /\ pc = "done"

IsPrompt(e) == e.ev \in {"prompt_caps", "prompt_deps"}

\* C20: every install_package call below the outermost one runs with yes = true,
\* and a capability or dependency prompt is only ever issued by an install
\* invocation started without --yes, for the requested package, before any
\* dependency has been touched
C20_OnlyTopLevelPrompts ==
    /\ \A i \in DOMAIN stack : i > 1 => stack[i].yes
    /\ \A j \in DOMAIN log :
          IsPrompt(log[j]) =>
              /\ cmd.op = "install"
              /\ ~cmd.yes
              /\ log[j].pkg = cmd.pkg
              /\ \A k \in 1..j : log[k].pkg = cmd.pkg

\* B was requested without --yes and both of its prompts were accepted; its
\* dependency A, which itself requires a capability, is being installed by the
\* nested call and has been resolved and downloaded without a prompt
C20_DependencyNotPrompted ==
    /\ cmd.op = "install"
    /\ cmd.pkg = "B"
    /\ ~cmd.yes
    /\ Len(stack) = 2
    /\ stack[2].pkg = "A"
    /\ stack[2].entry.capabilities # <<>>
    /\ Len(log) >= 7
    /\ SubSeq(log, 1, 7) =
          <<Event("resolve", "B"), Event("prompt_caps", "B"), Event("y", "B"),
            Event("prompt_deps", "B"), Event("no", "B"),
            Event("resolve", "A"), Event("download", "A")>>

\* the requested package of an install started with --download-only has passed
\* download and verification
DownloadOnlyVerified ==
    /\ cmd.op = "install"
    /\ cmd.download_only
    /\ Event("verified", cmd.pkg) \in Range(log)

\* C21: an install with download_only that has passed download and
\* verification stops there: it has returned success, the verification is the
\* last thing it did, the requested package was neither extracted nor recorded
\* (in memory or in the file), every path added under the install root is a
\* file of a dependency installed on the way, and the artifact that passed the
\* checks is in the cache
C21_DownloadOnlyStops ==
    DownloadOnlyVerified =>
        LET pkg == find_package(cmd.pkg).pkg
            package_file == <<cmd.pkg, pkg.version>>
        IN  /\ pc = "done"
            /\ err = NoErr
            /\ log[Len(log)] = Event("verified", cmd.pkg)
            /\ \A i \in DOMAIN log :
                  log[i].pkg = cmd.pkg => log[i].ev \notin {"extract", "recorded"}
            /\ cmd.pkg \notin DOMAIN installed
            /\ cmd.pkg \notin DOMAIN disk_db.map
            /\ fs \ start.fs \subseteq
                  UNION {Range(installed[d].files) :
                            d \in (DOMAIN installed) \ (DOMAIN start.installed)}
            /\ package_file \in DOMAIN cache
            /\ VerifyArtifact(pkg, cache[package_file], trusted).kind = "Ok"

\* B was requested with --download-only: its dependency A was installed in
\* full, B itself was downloaded and verified only
C21_DependencyInstalledOnly ==
    /\ DownloadOnlyVerified
    /\ cmd.pkg = "B"
    /\ Event("recorded", "A") \in Range(log)
    /\ "A" \in DOMAIN disk_db.map
    /\ fs # start.fs

Queries == {"search", "info", "list"}

\* C22: when the invocation is a search, an info or a list, the in-memory map
\* is the one loaded at start and the database file, the index caches, the
\* cached artifacts, the trusted keys and the install root are what the
\* invocation found, whether it ended in success or in an error
C22_QueriesReadOnly ==
    cmd.op \in Queries =>
        /\ installed = start.installed
        /\ disk_db = start.disk_db
        /\ index = start.index
        /\ cache = start.cache
        /\ trusted = start.trusted
        /\ fs = start.fs

\* a list with a pattern that leaves one of two installed packages out
C22_ListedOneOfTwo ==
    /\ cmd.op = "list"
    /\ cmd.pkg = "B"
    /\ DOMAIN installed = {"A", "B"}
    /\ log = <<Event("installed", "B")>>
    /\ fs # {}

\* the dependencies of p in the catalog that are not in the map inst
UnmetDeps(p, inst) ==
    IF find_package(p).found
    THEN Range(find_package(p).pkg.dependencies) \ DOMAIN inst
    ELSE {}

\* the packages reached from those of S over at most n such dependencies
RECURSIVE ReachIn(_, _, _)
ReachIn(S, inst, n) ==
    IF n = 0 THEN {}
    ELSE LET D == UNION {UnmetDeps(p, inst) : p \in S}
         IN  D \cup ReachIn(D, inst, n - 1)

Reach(p, inst) == ReachIn({p}, inst, Cardinality(PkgNames))

\* p lies on a dependency cycle of packages that are not installed
OnCycle(p, inst) == p \notin DOMAIN inst /\ p \in Reach(p, inst)

\* the invocation installs a package from which such a cycle is reached
CycleRequested ==
    /\ cmd.op = "install"
    /\ cmd.pkg \notin DOMAIN start.installed
    /\ \E q \in {cmd.pkg} \cup Reach(cmd.pkg, start.installed) :
           OnCycle(q, start.installed)

DeclinedLast ==
    /\ Len(log) >= 2
    /\ IsPrompt(log[Len(log) - 1])
    /\ Declines(log[Len(log)].ev)

\* no package on a cycle is downloaded or recorded, and the invocation returns
\* only by a declined prompt or by the failure of a package off the cycles
CycleSafe ==
    CycleRequested =>
        /\ \A i \in DOMAIN log :
              OnCycle(log[i].pkg, start.installed) =>
                  log[i].ev \notin {"download", "verified", "extract", "recorded"}
        /\ cmd.pkg \notin DOMAIN installed
        /\ cmd.pkg \notin DOMAIN disk_db.map
        /\ pc = "done" => DeclinedLast
        /\ pc = "failed" => ~OnCycle(err.pkg, start.installed)

\* a nested call for a package on a cycle is in progress
InsideCycle ==
    /\ pc = "install"
    /\ Len(stack) >= 2
    /\ OnCycle(Top.pkg, installed)

OtherStep == vin' # vin

\* C24: nothing orders the loads and saves of two invocations.  Each loads the
\* whole of installed.json when it starts, and every successful write of
\* installed.json puts there the whole in-memory map of the invocation that
\* writes, whatever the file held: entries written by the other invocation
\* since the writer's load are not kept, removed ones come back
C24_WholeMapLoadedAndSaved ==
    [][/\ runs' # runs => start'.installed = load_installed(disk_db)
       /\ (vin.pc = "idle" /\ OtherStep) => vin'.installed = load_installed(disk_db)
       /\ (disk_db' # disk_db /\ disk_db'.state = "ok") =>
              disk_db'.map = IF OtherStep THEN vin'.installed ELSE installed'
      ]_vars

\* both invocations have returned success, one has installed and recorded a
\* package the other did not name, and the database file has no entry for it
C24_LostInstall ==
    /\ pc = "done"
    /\ vin.pc = "done"
    /\ cmd.op = "install"
    /\ vin.pkg # cmd.pkg
    /\ Event("recorded", cmd.pkg) \in Range(log)
    /\ disk_db.state = "ok"
    /\ cmd.pkg \notin DOMAIN disk_db.map

\* a remove left on the disk a file of the package that no other package lists:
\* its deletion returned an error
DeletionFailed ==
    /\ cmd.op = "remove"
    /\ rm.pkg # "none"
    /\ \E f \in Range(start.installed[rm.pkg].files) : f \in fs /\ f \notin rm.others

\* the search met a cached index of an enabled repository that does not parse
SearchedUnparsed ==
    /\ cmd.op = "search"
    /\ \E i \in DOMAIN repositories :
          /\ repositories[i].enabled
          /\ start.index[repositories[i].name] = UnparsedIndex

\* C25: an invocation that met a failure other than a repository's sync failure
\* or an unresolvable package of upgrade does not end in success: not when
\* installed.json did not parse at load, not when a file deletion of remove
\* failed, not when a cached index did not parse
C25_FailuresSurfaced ==
    /\ (cmd.op # "none" /\ start.disk_db.state = "corrupt") => pc # "done"
    /\ DeletionFailed => pc # "done"
    /\ SearchedUnparsed => pc # "done"

\* the step leaves installed.json truncated: a save_installed has failed
SaveTruncates == disk_db' = CorruptDb /\ disk_db # CorruptDb

\* the invocation has failed in save_installed
FailedInSave == pc = "failed" /\ err.kind = "DatabaseIoError"

\* C26: a step in which save_installed fails ends the invocation with an
\* error: no call and no package of the command line or of the upgrade queue
\* is left to process, nothing is recorded in that step, and the only step that
\* can follow is the start of another invocation
C26_SaveFailureIsFatal ==
    [][/\ SaveTruncates =>
              /\ pc' = "failed"
              /\ err'.kind = "DatabaseIoError"
              /\ stack' = <<>>
              /\ queue' = <<>>
              /\ \A i \in DOMAIN log' : i > Len(log) => log'[i].ev # "recorded"
       /\ FailedInSave => runs' # runs
      ]_vars

\* `install A B`: the save after A's extraction failed and B was not touched
C26_SecondPackageNotProcessed ==
    /\ FailedInSave
    /\ cmd.op = "install"
    /\ cmd.packages = <<"A", "B">>
    /\ err.pkg = "A"
    /\ disk_db = CorruptDb
    /\ \A i \in DOMAIN log : log[i].pkg = "A"

\* the key sign_package_file signed with
SigningName == IF vin.key_name = NoKey THEN DefaultKey ELSE vin.key_name

\* the trusted-keys directory holds, under the name n, the public key of the
\* keypair that signed
TrustedAs(n) ==
    /\ trusted.exists
    /\ n \in DOMAIN trusted.files
    /\ trusted.files[n] = KeyFile(keys[SigningName].secret.mat)

\* C27: a signature made by sign_package_file over b with a keypair whose
\* public key is trusted is accepted for b when that trusted key is named as
\* the signer and when no signer is named, and no signature made over b is
\* accepted for a buffer other than b, whoever is named
C27_SignVerifyRoundTrip ==
    vout.res # "pending" =>
        /\ (vin.check = vin.data /\ vin.signer_key # NoKey /\ TrustedAs(vin.signer_key))
              => vout.res = "Ok"
        /\ (vin.check = vin.data /\ vin.signer_key = NoKey
              /\ \E n \in KeyNames : TrustedAs(n))
              => vout.res = "Ok"
        /\ vin.check # vin.data => vout.res # "Ok"

\* signed with the default key, whose public key is trusted under the name ci
\* beside another key, and verified with no signer named
C27_DefaultKeyAccepted ==
    /\ vout.res = "Ok"
    /\ vin.key_name = NoKey
    /\ vin.signer_key = NoKey
    /\ TrustedAs("ci")
    /\ "dev" \in DOMAIN trusted.files
    /\ trusted.files["dev"] # trusted.files["ci"]

\* the step is an import-key invocation
ImportStep == runs' # runs /\ cmd'.op = "import-key"

\* C28: import_public_key changes nothing but the trusted-keys directory; a
\* source file that is not 32 bytes long is refused and the directory stays as
\* it was; a valid key imported with --trust leaves the directory with the
\* entries it had and the entry of the source file's stem holding the key;
\* without --trust the directory stays as it was
C28_ImportWritesOneEntry ==
    [][ImportStep =>
          LET key_file == cmd'.pkg
              key_data == ext[key_file]
              trust == cmd'.yes
          IN  /\ UNCHANGED <<keys, ext, disk_db, fs, cache, index>>
              /\ key_data.len # 32 => (pc' = "failed" /\ trusted' = trusted)
              /\ (ImportCheck(key_data) = "Ok" /\ trust) =>
                    /\ pc' = "done"
                    /\ trusted'.exists
                    /\ trusted'.files = Put(trusted.files, key_file, key_data)
              /\ ~trust => trusted' = trusted
      ]_vars

\* an import with --trust has replaced the key trusted under the same name by
\* another one
C28_Overwritten ==
    /\ cmd.op = "import-key"
    /\ cmd.yes
    /\ pc = "done"
    /\ cmd.pkg \in DOMAIN start.trusted.files
    /\ start.trusted.files[cmd.pkg] # trusted.files[cmd.pkg]
    /\ trusted.files[cmd.pkg] = ext[cmd.pkg]

\* the two files of the key n are a secret seed and the public key derived from it
MatchingPair(n) ==
    /\ keys[n].secret.len = 32
    /\ keys[n].public = KeyFile(keys[n].secret.mat)

\* C29: a keygen invocation whose file writes all succeed ends in success with
\* both files of the name in the keys area, the public key being the one
\* derived from the stored seed, and no name of the keys area ever holds a
\* secret of one generation beside a public key of another
C29_KeygenCompletes ==
    /\ (cmd.op = "keygen" /\ err.kind # "IoError") =>
          /\ pc = "done"
          /\ cmd.pkg \in DOMAIN keys
          /\ MatchingPair(cmd.pkg)
    /\ \A n \in DOMAIN keys : keys[n].public # NoFile => MatchingPair(n)

\* a remove is in its loop with files of the package still to be visited
FilesAwaiting == cmd.op = "remove" /\ pc = "remove_files" /\ queue # <<>>

\* C30: while files of the package are still to be visited by the loop of
\* remove_package, the entry is in the in-memory map and installed.json is as
\* the invocation found it, with the entry; the file is written only in the
\* step that follows the last turn of the loop, which is also the one that
\* takes the entry out of the map, and a remove that succeeds leaves the file
\* without the entry
C30_EntryRemovedLast ==
    [][/\ FilesAwaiting =>
              /\ cmd.pkg \in DOMAIN installed
              /\ disk_db = start.disk_db
              /\ cmd.pkg \in DOMAIN load_installed(disk_db)
       /\ (cmd.op = "remove" /\ pc = "remove_files"
             /\ (disk_db' # disk_db \/ installed' # installed)) =>
              /\ queue = <<>>
              /\ installed' = Del(installed, cmd.pkg)
              /\ disk_db' \in {out.db : out \in SaveOutcomes(disk_db, installed')}
              /\ pc' = "done" => cmd.pkg \notin DOMAIN load_installed(disk_db')
      ]_vars

\* B is being removed: /opt/b is deleted, /usr/bin/b is still to be visited and
\* the database file still has the entry of B
C30_HalfwayThroughTheLoop ==
    /\ FilesAwaiting
    /\ cmd.pkg = "B"
    /\ "/opt/b" \in start.fs
    /\ "/opt/b" \notin fs
    /\ "/usr/bin/b" \in fs
    /\ queue = <<"/usr/bin/b">>
    /\ "B" \in DOMAIN disk_db.map

\* the dependencies the catalog lists for the package that the invocation did
\* not find installed
MissingAtStart(package) ==
    {d \in Range(find_package(package).pkg.dependencies) :
        d \notin DOMAIN start.installed}

\* C31: the dependency confirmation is asked only for a package that has a
\* listed dependency which is not installed
C31_PromptOnlyForMissingDeps ==
    cmd.op = "install" =>
        \A i \in DOMAIN log :
            log[i].ev = "prompt_deps" => MissingAtStart(log[i].pkg) # {}

\* the call in progress is at the checks of lines 488-508 for a package whose
\* catalog entry has no signature, with bytes that pass the checksum step
UnsignedAtVerify ==
    /\ pc = "install"
    /\ Top.pc = "verify"
    /\ Top.entry.signature = NoSig
    /\ ~ChecksumMismatch(compute_checksum(cache[PackageFile(Top)]), Top.entry.checksum)

\* C32: for a package without a signature whose bytes pass the checksum step (or
\* whose checksum is empty) the checks succeed whatever the trusted-keys directory
\* holds: the call goes on to extraction (or returns, with --download-only), the
\* downloaded file is kept, and once the extraction and the save have succeeded
\* the package is in installed.json
C32_UnsignedIsInstalled ==
    [][/\ UnsignedAtVerify =>
              /\ pc' # "failed"
              /\ cache' = cache
              /\ \/ Top.download_only
                 \/ /\ Len(stack') = Len(stack)
                    /\ stack'[Len(stack)].pc = "extract"
       /\ (pc = "install" /\ Top.pc = "record" /\ Top.entry.signature = NoSig
             /\ pc' # "failed") =>
              Top.pkg \in DOMAIN load_installed(disk_db')
      ]_vars

\* B, which has no signature, is installed on a system without a trusted-keys
\* directory
C32_RecordedWithoutKeys ==
    /\ cmd.op = "install"
    /\ cmd.pkg = "B"
    /\ pc = "done"
    /\ ~trusted.exists
    /\ find_package("B").pkg.signature = NoSig
    /\ "B" \notin DOMAIN start.installed
    /\ "B" \in DOMAIN load_installed(disk_db)
    /\ "/opt/b" \in fs

\* the packages the invocation has recorded so far
RecordedSoFar == {log[i].pkg : i \in {j \in DOMAIN log : log[j].ev = "recorded"}}

\* the process was killed in the download, the verification or the extraction
\* of a package
KilledBeforeRecord ==
    /\ pc = "failed"
    /\ err.kind = "Killed"
    /\ err.reason \in {"download", "verify", "extract"}

\* C33: no step of the download, the verification or the extraction of a package
\* writes installed.json; an install step that writes it is the record step of a
\* package whose archive entries are all on disk; and after a kill in one of the
\* three stages the package is not in installed.json, which is the file the
\* invocation found unless a dependency was recorded before
C33_RecordedOnlyAfterExtraction ==
    [][/\ (pc = "install" /\ Top.pc \in {"download", "verify", "extract"}) =>
              disk_db' = disk_db
       /\ (pc = "install" /\ disk_db' # disk_db) =>
              /\ Top.pc = "record"
              /\ Top.files = Entries(cache[PackageFile(Top)])
              /\ Range(Top.files) \subseteq fs
       /\ KilledBeforeRecord' =>
              /\ err'.pkg \notin DOMAIN load_installed(disk_db')
              /\ RecordedSoFar' = {} => disk_db' = start'.disk_db
              /\ DOMAIN load_installed(disk_db') \subseteq
                    DOMAIN start'.installed \cup RecordedSoFar'
      ]_vars

\* killed in the extraction of B with /opt/b unpacked and /usr/bin/b not: the
\* dependency A is recorded, B is not
C33_KilledMidExtraction ==
    /\ KilledBeforeRecord
    /\ err.reason = "extract"
    /\ err.pkg = "B"
    /\ "/opt/b" \in fs
    /\ "/usr/bin/b" \notin fs
    /\ DOMAIN load_installed(disk_db) = {"A"}
    /\ start.disk_db = NoDb

\* the dependencies the catalog lists for the package requested
ListedDeps == Range(find_package(cmd.pkg).pkg.dependencies)

\* C34: in an install with download_only no nested call carries the flag, and
\* when the requested package has been downloaded and verified every dependency
\* it lists is in installed.json, those the invocation did not find installed
\* having been extracted and recorded by it with their files on disk
C34_DependenciesInstalledInFull ==
    (cmd.op = "install" /\ cmd.download_only) =>
        /\ \A i \in 2..Len(stack) : ~stack[i].download_only
        /\ (pc = "done" /\ Event("verified", cmd.pkg) \in Range(log)) =>
              \A d \in ListedDeps :
                 /\ d \in DOMAIN load_installed(disk_db)
                 /\ d \notin DOMAIN start.installed =>
                       /\ Event("extract", d) \in Range(log)
                       /\ Event("recorded", d) \in Range(log)
                       /\ Range(load_installed(disk_db)[d].files) \subseteq fs

\* install B --download-only on a system without A: A is in installed.json with
\* /opt/a on disk, B is in the cache only
C34_DependencyWrittenToDisk ==
    /\ cmd.op = "install"
    /\ cmd.download_only
    /\ cmd.pkg = "B"
    /\ pc = "done"
    /\ "A" \notin DOMAIN start.installed
    /\ "/opt/a" \notin start.fs
    /\ "A" \in DOMAIN load_installed(disk_db)
    /\ "/opt/a" \in fs
    /\ "B" \notin DOMAIN load_installed(disk_db)
    /\ <<"B", find_package("B").pkg.version>> \in DOMAIN cache

\* the step in which an install_package call without download_only records its
\* package and returns Ok
RecordsAndReturns ==
    /\ pc = "install"
    /\ Top.pc = "record"
    /\ ~Top.download_only
    /\ log' = Append(log, Event("recorded", Top.pkg))

\* C35: when a call of install_package without download_only records its package
\* and returns success, every dependency of the catalog entry it resolved is in
\* the database at that moment, in memory and in installed.json
C35_DependenciesPresentAtReturn ==
    [][RecordsAndReturns =>
          /\ Top.pkg \in DOMAIN load_installed(disk_db')
          /\ \A d \in Range(Top.entry.dependencies) :
                /\ d \in DOMAIN installed'
                /\ d \in DOMAIN load_installed(disk_db')
      ]_vars

\* the second package of `install A B` has been recorded: B, whose dependency A
\* the same command line installed first
C35_RecordedAfterItsDependency ==
    /\ cmd.op = "install"
    /\ cmd.packages = <<"A", "B">>
    /\ pc = "done"
    /\ Len(log) > 0
    /\ log[Len(log)] = Event("recorded", "B")
    /\ find_package("B").pkg.dependencies = <<"A">>
    /\ {"A", "B"} \subseteq DOMAIN load_installed(disk_db)

\* the installed packages that list the package as a dependency in the catalog
Dependants(package, inst) ==
    {n \in (DOMAIN inst) \ {package} :
        /\ find_package(n).found
        /\ package \in Range(find_package(n).pkg.dependencies)}

\* a remove of an installed package begins
RemoveOfInstalled ==
    /\ runs' # runs
    /\ cmd'.op = "remove"
    /\ cmd'.pkg \in DOMAIN load_installed(disk_db)

\* C36: remove of an installed package does not look at the packages that depend
\* on it: it ends in success with the entry gone and the other entries as they
\* were (or fails in save_installed), whether or not an installed package lists
\* it as a dependency; and an install resolves only the packages requested and
\* the dependencies listed by a package it resolved itself, so the missing
\* dependency of a package that is already installed is not installed again
C36_NoReverseDependencyCheck ==
    [][/\ RemoveOfInstalled =>
              /\ installed' = Del(load_installed(disk_db), cmd'.pkg)
              /\ pc' = "done" => load_installed(disk_db') = installed'
              /\ pc' # "done" => /\ pc' = "failed"
                                 /\ err'.kind = "DatabaseIoError"
       /\ cmd'.op = "install" =>
              \A i \in DOMAIN log' :
                 log'[i].ev = "resolve" =>
                    \/ log'[i].pkg \in Range(cmd'.packages)
                    \/ \E j \in 1..(i - 1) :
                          /\ log'[j].ev = "resolve"
                          /\ log'[i].pkg \in Range(find_package(log'[j].pkg).pkg.dependencies)
      ]_vars

\* A was removed while B, which lists it, stayed installed; C, which depends on
\* B, has then been installed, and A is still absent
C36_DependencyLeftMissing ==
    /\ cmd.op = "install"
    /\ cmd.pkg = "C"
    /\ pc = "done"
    /\ Event("recorded", "C") \in Range(log)
    /\ DOMAIN load_installed(disk_db) = {"B", "C"}
    /\ "B" \in Dependants("A", load_installed(disk_db) )
    /\ Event("resolve", "A") \notin Range(log)

\* an install invocation has failed
InstallFailed == cmd.op = "install" /\ pc = "failed"

\* C37 as stated: after a failed install every package the invocation had
\* recorded is in installed.json with its files on disk
C37_RecordedStayPersisted ==
    InstallFailed =>
        \A d \in RecordedSoFar :
           /\ d \in DOMAIN load_installed(disk_db)
           /\ Range(installed[d].files) \subseteq fs

\* C37: after a failed install the files of every package the invocation had
\* recorded are on disk and the package is in the in-memory map; it is in
\* installed.json too, unless the failure is a write of installed.json that left
\* the file truncated
C37_NoRollback ==
    InstallFailed =>
        \A d \in RecordedSoFar :
           /\ d \in DOMAIN installed
           /\ Range(installed[d].files) \subseteq fs
           /\ \/ d \in DOMAIN load_installed(disk_db)
              \/ err.kind = "DatabaseIoError" /\ disk_db = CorruptDb

\* `install A B` fails in the download of B: A, installed by the same command
\* line, stays recorded with its files
C37_EarlierPackageKept ==
    /\ InstallFailed
    /\ cmd.packages = <<"A", "B">>
    /\ err.kind = "NetworkError"
    /\ err.pkg = "B"
    /\ RecordedSoFar = {"A"}
    /\ "A" \notin DOMAIN start.installed
    /\ "A" \in DOMAIN load_installed(disk_db)
    /\ "/opt/a" \in fs

\* the invocation found an installed.json that does not parse
LoadedUnparsed == start.disk_db = CorruptDb

OtherRemoves ==
    /\ vin.pc = "loaded"
    /\ vin.op = "remove"
    /\ vin.pkg \in DOMAIN vin.installed
    /\ vin'.pc # "loaded"

\* C39: a remove decides which paths are shared from the map the process loaded
\* when it started, not from installed.json as it is when the loop runs: every
\* path of the package that no other package of that map lists is deleted, also
\* one that a package recorded since lists, and a path listed by another package
\* of that map stays unless it lies in a directory that is deleted
C39_SharedDecidedFromSnapshot ==
    [][OtherRemoves =>
          LET files == Range(vin.installed[vin.pkg].files)
              shared == OwnedByOthers(vin.pkg, vin.installed)
          IN  /\ \A f \in files \ shared : f \notin fs'
              /\ \A f \in (files \cap shared) \cap fs :
                    Parent(f) \notin files \ shared => f \in fs'
      ]_vars

\* the second process loaded its map before B was installed and then removed A:
\* B is recorded in installed.json and /usr/lib/libx.so, which B lists, is gone
C39_OwnedFileDeleted ==
    /\ vin.pc = "done"
    /\ vin.op = "remove"
    /\ vin.pkg = "A"
    /\ "B" \in DOMAIN load_installed(disk_db)
    /\ "/usr/lib/libx.so" \in Range(load_installed(disk_db)["B"].files)
    /\ "/usr/lib/libx.so" \notin fs
    /\ Event("extract", "B") \in Range(log)

\* no package is downloaded twice in the invocation
DownloadedOnce ==
    \A i, j \in DOMAIN log :
        (log[i].ev = "download" /\ log[j] = log[i]) => i = j

\* a prompt was declined, and nothing followed the answer
EndedByDecline == \E i \in DOMAIN log : DeclinedAt(i) /\ i + 1 = Len(log)

\* C40 as stated: an install that has ended has the requested package in the
\* database or has failed
C40_RecordedOrFailed ==
    (cmd.op = "install" /\ pc \in {"done", "failed"}) =>
        \/ pc = "failed"
        \/ cmd.pkg \in DOMAIN load_installed(disk_db)

\* how an install that returned success has ended: the requested package is in
\* the database, or a prompt was declined, or it was downloaded and verified
\* only
EndsAsExpected ==
    (cmd.op = "install" /\ pc = "done") =>
        \/ cmd.pkg \in DOMAIN load_installed(disk_db)
        \/ EndedByDecline
        \/ cmd.download_only /\ log[Len(log)] = Event("verified", cmd.pkg)

\* C40: on an acyclic catalog, when every step in progress returns, an install
\* ends: with a failure, with the requested package in the database, at a
\* declined prompt, or after the verification with download_only; and no
\* package is downloaded twice in an invocation
C40_InstallTerminates ==
    /\ [](cmd.op = "install" => DownloadedOnce)
    /\ []EndsAsExpected
    /\ (pc = "install") ~> (pc \in {"done", "failed"})

\* install C on the catalog where C lists B and A, and B lists A: the three are
\* recorded and A was downloaded once
C40_SharedDependencyOnce ==
    /\ cmd.op = "install"
    /\ cmd.pkg = "C"
    /\ pc = "done"
    /\ find_package("C").pkg.dependencies = <<"B", "A">>
    /\ start.installed = Empty
    /\ DOMAIN load_installed(disk_db) = {"A", "B", "C"}
    /\ Cardinality({i \in DOMAIN log : log[i] = Event("download", "A")}) = 1

====
